---- MODULE Spec2Model ----
(***************************************************************************)
(* A model of prun's process-lifecycle core: Runner.Run / Runner.runTask   *)
(* (the plain supervisor and the executor) and Watcher.Start /             *)
(* Watcher.runTaskWithRestart / Watcher.triggerRestarts (the watch layer). *)
(*                                                                         *)
(* An executor is one call of runTask.  In plain mode task t has the one   *)
(* executor <<t, 1>>; in watch mode the k-th iteration of t's per-task     *)
(* loop launches executor <<t, k>>.  ex maps the executors whose goroutine *)
(* exists (or whose result has not been received yet) to their state.      *)
(*                                                                         *)
(* Spec is plain mode, FairSpec plain mode under the scheduler's fairness, *)
(* SigSpec plain mode with further signals, WatchSpec watch mode,          *)
(* FairWatchSpec watch mode under fairness, OutSpec watch mode with the    *)
(* writes of the splitters followed line by line, BootSpec main up to the  *)
(* start of the supervisor, and RegSpec the registration of directories.   *)
(* LineSpec is one executor with the lines of its child followed from the  *)
(* pipe to the sink.  UiSpec is interactive plain mode (main in ui.Start,  *)
(* the splitters publishing on eventChan), UiFairSpec the same under       *)
(* fairness, and UiWatchSpec interactive watch mode around a quit.         *)
(* EventSpec is watch mode with filesystem events of every kind, followed  *)
(* while no signal arrives; in the other specifications of watch mode      *)
(* every event is a write.  StartSpec is watch mode with Start's writes to *)
(* the restartChans map followed from their beginning to their end.        *)
(* LoadSpec is config.Load on a manifest, RingSpec the dashboard receiving *)
(* a long run of events.                                                   *)
(* In watch mode the commands explored leave no descendants behind and     *)
(* print no over-long line.  In the interactive specifications a child     *)
(* prints at most one line and leaves no descendants; in UiWatchSpec the   *)
(* children print nothing and one filesystem event is followed.            *)
(***************************************************************************)
EXTENDS Naturals, Sequences, FiniteSets

\* Number of selected tasks (len(r.tasks) / len(w.tasks)).
NumTasks == 2
\* Largest number of debounce windows (calls of triggerRestarts) explored.
MaxWindows == 2

\* Number of directories in the tree below a watch root, the root included.
MaxDirs == 3
\* Largest number of positional task names explored.
MaxArgs == 2
\* Largest number of lines a child writes on one stream.
MaxLines == 2
\* Largest number of events sent to the dashboard when its ring is followed,
\* and the largest number of them waiting in the channel.
MaxEvents == 502
MaxBacklog == 2
\* Capacity of a restart mailbox (make(chan struct{}, 1)).
MailboxCap == 1
\* Capacity of the event channel of interactive mode.
EventChanCap == 100
\* Number of entries the dashboard keeps in Model.logs.
LogCap == 500

Tasks == 1..NumTasks
\* The per-task loop launches no more executions than this in the model; the
\* code launches at most one per window after the first.
MaxRuns == MaxWindows + 2
Streams == {"stdout", "stderr"}

VARIABLES
    ex,         \* executor -> record:
                \*   pc     position of runTask: start, stream, wait, ret
                \*   res    value returned by runTask: "-", "nil", "err"
                \*   why    the error wrapped by a returned "err": canceled
                \*          (ctx.Err() from cmd.Start), exec (any other error
                \*          of cmd.Start), exit (error of cmd.Wait); else "-"
                \*   child  child process: none, run, zombie (exited, not reaped), reaped
                \*   status exit status of the child: "-", "0", "1", "killed"
                \*   desc   the child is dead and descendants of it still hold the
                \*          write ends of its pipes
                \*   split  per stream, the splitter (streamOutput): read, write
                \*          (inside WritePrefix, holding ow.mu), eof, err
                \*   sigs   signals sent by the executor to its child, in order
                \*   tctx   watch mode: the iteration's taskCtx has been cancelled
                \*   wrote  per stream, the lines the child has written, in order
                \*   pipe   per stream, the lines written and not yet read
    orphans,    \* the commands of this run may leave descendants behind that hold
                \* the pipes (cmd = "server & wait"); FALSE: no command does
    rootCancelled,  \* main's ctx is cancelled (SIGINT/SIGTERM received)
    runCancelled,   \* Runner.Run's ctx is cancelled (cancel() called)
    \* ---- Runner.Run ----
    gpc,        \* per task, the goroutine of Run: run, sent, done
    errChan,    \* the errors sent on errChan, in order (as tasks)
    late,       \* tasks whose runTask returned a failure when a failure was already on errChan
    runPc,      \* Run: "running", "returned"
    firstErr,   \* value returned by Run: 0 (nil) or the task of the error
    \* ---- Watcher ----
    globalWatch,    \* Watcher.globalWatch (the --watch flag)
    watch,      \* per task, TaskDef.Watch
    lpc,        \* per task, runTaskWithRestart: init (not launched), top, select,
                \*   drain (<-done after cancel), cool (inner select), exit
    runs,       \* per task, number of executions launched so far
    mailbox,    \* per task, len(restartChans[t]) (capacity 1)
    timer,      \* debounceTimer: "off", "armed", "rearmed" (a pending timer was
                \*   stopped and a new one armed in its place)
    loopAlive,  \* watchLoop has not returned
    windows,    \* per task, calls of triggerRestarts since the task was launched
    accepted,   \* per task, pulses that were put into the mailbox
    fired,      \* calls of triggerRestarts so far
    mapPc,      \* Start's access to the restartChans map: "idle", or "writing"
                \*   while it is inside w.restartChans[taskName] = make(...)
    mapRace,    \* restartChans has been read while Start was writing to it
    lastOp,     \* event.Op of the last event watchLoop received, as the set of
                \*   its bits; {} before the first event
    startPc,    \* Watcher.Start: "running", "returned"
    \* ---- main ----
    exitCode,   \* exit code of the process ("0", "1", "2", "3", "130"), "-" while it runs
    sigChan,    \* len(sigChan) (capacity 1) after main has taken the first signal
    bootPc,     \* main before the supervisor: stat, load, select, run (supervisor
                \*   started), exited
    cfgFile,    \* the file at configPath: "missing", "bad" (unreadable, not TOML,
                \*   or rejected by Load), "ok"
    cfgTasks,   \* cfg.Tasks, the manifest's task list
    args,       \* flag.Args(), the positional task names
    tasksToRun, \* the list main hands to runner.New / runner.NewWatcher
    stderrMsg,  \* what main wrote on standard error before exiting, "-" if nothing
    \* ---- Watcher.addWatchRecursive ----
    dirName,    \* per directory of the tree below the watch root, its base name
    dirParent,  \* per directory, its parent (the root is directory 1, its own parent)
    pending,    \* directories filepath.Walk has still to visit
    registered, \* directories added to fsWatcher
    regPc,      \* addWatchRecursive: "idle", "walk", "done", "failed"
    \* ---- config.Load ----
    manifest,   \* the file given to config.Load: [kind |-> "none"] (Load is not
                \*   followed), [kind |-> "unreadable"], [kind |-> "notTOML"], or
                \*   [kind |-> "doc", tasks |-> the tasks array, defs |-> the
                \*   [task.NAME] tables, each with its cmd key: "absent", "" or
                \*   a command]
    loaded,     \* what Load returned: [err |-> "-"] (not called), [err |-> message]
                \*   or [err |-> "nil", cfg |-> the Config]
    \* ---- output ----
    sink,       \* the labelled lines written to standard output, in order, each
                \*   as <<task, line>>
    eventChan,  \* interactive mode: the LogEvents buffered in eventChan, in order
    chanClosed, \* close(eventChan) has been called
    panicked,   \* a goroutine has sent on the closed eventChan
    statuses,   \* Model.statuses of the dashboard, per task
    logs,       \* Model.logs of the dashboard: the entries kept, oldest first
    verbose,    \* the --verbose flag (followed in interactive watch mode only)
    uiPc        \* interactive mode, main: "off" (not interactive), "tui" (in
                \*   ui.Start), "deferred" (main returns, its deferred calls run)

runVars == <<gpc, errChan, late, runPc, firstErr>>
watchVars == <<globalWatch, watch, lpc, runs, mailbox, timer, loopAlive, windows, accepted, fired,
               startPc>>
mainVars == <<exitCode, sigChan>>
bootVars == <<bootPc, cfgFile, cfgTasks, args, tasksToRun, stderrMsg>>
cfgVars == <<manifest, loaded>>
mapVars == <<mapPc, mapRace>>
regVars == <<dirName, dirParent, pending, registered, regPc>>
startVars == <<bootVars, regVars>>
ioVars == <<sink, eventChan, chanClosed, panicked, statuses, verbose, uiPc>>
vars == <<ex, orphans, lastOp, cfgVars, logs, mapVars, ioVars, rootCancelled, runCancelled, runVars, watchVars, mainVars, startVars>>

----------------------------------------------------------------------------
\* runTask has been called and has not reached cmd.Start yet.
NewExec ==
    [pc |-> "start", res |-> "-", why |-> "-", child |-> "none", status |-> "-", desc |-> FALSE,
     split |-> [s \in Streams |-> "read"], sigs |-> <<>>, tctx |-> FALSE,
     wrote |-> [s \in Streams |-> <<>>], pipe |-> [s \in Streams |-> <<>>]]

\* Mutant of CtxErr: the scope of an executor does not end with the root
\* scope.
CtxErr_OwnScopeOnly(e) == runCancelled \/ ex[e].tctx

\* ctx.Err() != nil for the context runTask was given: in plain mode Run's
\* ctx (a child of main's), in watch mode the iteration's taskCtx (a child of
\* main's).
CtxErr(e) == rootCancelled \/ runCancelled \/ ex[e].tctx

\* The Watcher's state before Watcher.Start launches anything.
WatchIdle ==
    /\ lpc = [t \in Tasks |-> "init"]
    /\ runs = [t \in Tasks |-> 0]
    /\ mailbox = [t \in Tasks |-> 0]
    /\ timer = "off"
    /\ windows = [t \in Tasks |-> 0]
    /\ accepted = [t \in Tasks |-> 0]
    /\ fired = 0
    /\ startPc = "running"

\* main waits in its select; no further signal is stored.
MainIdle ==
    /\ exitCode = "-"
    /\ sigChan = 0

\* Not interactive: no event channel, no dashboard; nothing written yet.
IoIdle ==
    /\ sink = <<>>
    /\ eventChan = <<>>
    /\ chanClosed = FALSE
    /\ panicked = FALSE
    /\ statuses = [t \in Tasks |-> "idle"]
    /\ verbose = FALSE
    /\ uiPc = "off"

\* No access to the restartChans map is under way.
MapIdle ==
    /\ mapPc = "idle"
    /\ mapRace = FALSE

\* config.Load is not followed.
CfgIdle ==
    /\ manifest = [kind |-> "none"]
    /\ loaded = [err |-> "-"]

\* addWatchRecursive is not followed.
RegIdle ==
    /\ dirName = <<>>
    /\ dirParent = <<>>
    /\ pending = {}
    /\ registered = {}
    /\ regPc = "idle"

\* main has found and loaded the manifest, which lists the tasks in order, no
\* positional names were given, and the supervisor has been started with them.
Booted ==
    /\ bootPc = "run"
    /\ cfgFile = "ok"
    /\ cfgTasks = [i \in 1..NumTasks |-> i]
    /\ args = <<>>
    /\ tasksToRun = cfgTasks
    /\ stderrMsg = "-"

\* The process has not exited: its goroutines can take steps.
Alive == exitCode = "-"

\* The LogEvent a producer publishes for a line or a message of a task.
Event(task, text) == [Task |-> task, Line |-> text]

\* ch <- ev on eventChan: the event is buffered while there is room (the
\* sender blocks otherwise); a send on the closed channel panics, which ends
\* the process with status 2.
Send(ev) ==
    IF chanClosed
    THEN /\ panicked' = TRUE
         /\ exitCode' = "2"
         /\ UNCHANGED eventChan
    ELSE /\ Len(eventChan) < EventChanCap
         /\ eventChan' = Append(eventChan, ev)
         /\ UNCHANGED <<panicked, exitCode>>

\* The events of a sequence are sent one after the other.
SendAll(evs) ==
    IF evs = <<>>
    THEN UNCHANGED <<eventChan, panicked, exitCode>>
    ELSE IF chanClosed
    THEN /\ panicked' = TRUE
         /\ exitCode' = "2"
         /\ UNCHANGED eventChan
    ELSE /\ Len(eventChan) + Len(evs) <= EventChanCap
         /\ eventChan' = eventChan \o evs
         /\ UNCHANGED <<panicked, exitCode>>

\* The name under which watchLoop logs its own messages ("watcher"); it is no
\* task.
Watcher == 0

\* Watcher.logEvent: with an event channel (interactive mode) the message is
\* sent on it; without one it is printed to standard output, which is not
\* followed here (sink holds the lines of the children).
logEvent(taskName, message) ==
    IF uiPc = "off"
    THEN UNCHANGED <<eventChan, panicked, exitCode>>
    ELSE Send(Event(taskName, message))

\* The ways of putting the elements of a set in a row (the order in which a
\* Go map is ranged over is not fixed).
Orders(S) == {q \in [1..Cardinality(S) -> S] : \A x \in S : \E i \in DOMAIN q : q[i] = x}

\* Runner.Run has launched one goroutine per task; each is about to call
\* cmd.Start in runTask.
Init ==
    /\ ex = [e \in Tasks \X {1} |-> NewExec]
    /\ orphans = TRUE
    /\ lastOp = {}
    /\ MapIdle
    /\ logs = <<>>
    /\ CfgIdle
    /\ rootCancelled = FALSE
    /\ runCancelled = FALSE
    /\ gpc = [t \in Tasks |-> "run"]
    /\ errChan = <<>>
    /\ late = {}
    /\ runPc = "running"
    /\ firstErr = 0
    /\ globalWatch = FALSE
    /\ watch = [t \in Tasks |-> FALSE]
    /\ loopAlive = FALSE
    /\ WatchIdle
    /\ MainIdle /\ IoIdle /\ Booted /\ RegIdle

----------------------------------------------------------------------------
(* runTask *)

\* History of Run: a failure returned by runTask when another failure is
\* already on errChan is a later failure.
NoteReturn(e, res) ==
    late' = IF res = "err" /\ errChan # <<>> THEN late \cup {e[1]} ELSE late

\* cmd.Start (with the pipes set up before it): fails with ctx.Err() when the
\* context is already done, may fail with a system error, and otherwise the
\* child runs, holding the write ends of both pipes.
StartCmd(e) ==
    /\ Alive
    /\ ex[e].pc = "start"
    /\ \/ /\ CtxErr(e)
          /\ ex' = [ex EXCEPT ![e].pc = "ret", ![e].res = "err", ![e].why = "canceled"]
          /\ NoteReturn(e, "err")
       \/ /\ ~CtxErr(e)
          /\ ex' = [ex EXCEPT ![e].pc = "ret", ![e].res = "err", ![e].why = "exec"]
          /\ NoteReturn(e, "err")
       \/ /\ ~CtxErr(e)
          /\ ex' = [ex EXCEPT ![e].pc = "stream", ![e].child = "run"]
          /\ UNCHANGED late
    /\ UNCHANGED <<orphans, lastOp, cfgVars, logs, mapVars, ioVars, mainVars, startVars, rootCancelled, runCancelled, gpc, errChan, runPc, firstErr, watchVars>>

\* Whether descendants of a child that dies now survive it, holding its pipes.
Survivors == IF orphans THEN BOOLEAN ELSE {FALSE}

\* The child exits on its own, with code 0 or 1.
ChildExit(e) ==
    /\ ex[e].child = "run"
    /\ \E c \in {"0", "1"}, d \in Survivors :
          ex' = [ex EXCEPT ![e].child = "zombie", ![e].status = c, ![e].desc = d]
    /\ UNCHANGED <<orphans, lastOp, cfgVars, logs, mapVars, ioVars, mainVars, startVars, rootCancelled, runCancelled, runVars, watchVars>>

\* The descendants of the child exit, or close the pipes they inherited
\* (followed while a splitter may still be waiting for end-of-stream).
DescExit(e) ==
    /\ ex[e].desc
    /\ ex[e].pc = "stream"
    /\ ex' = [ex EXCEPT ![e].desc = FALSE]
    /\ UNCHANGED <<orphans, lastOp, cfgVars, logs, mapVars, ioVars, mainVars, startVars, rootCancelled, runCancelled, runVars, watchVars>>

\* exec.CommandContext: once the context is done the child process is killed
\* (os.Process.Kill: SIGKILL to the child's pid); nothing is sent before it,
\* no timer is armed, and the child's descendants are not signalled.
CtxKill(e) ==
    /\ Alive
    /\ CtxErr(e)
    /\ ex[e].child = "run"
    /\ \E d \in Survivors :
          ex' = [ex EXCEPT ![e].sigs = Append(@, "KILL"), ![e].child = "zombie",
                           ![e].status = "killed", ![e].desc = d]
    /\ UNCHANGED <<orphans, lastOp, cfgVars, logs, mapVars, ioVars, mainVars, startVars, rootCancelled, runCancelled, runVars, watchVars>>

\* The pipes of executor e's child are at end-of-stream: no process holds
\* their write ends any more.
AtEOF(e) == ex[e].child # "run" /\ ~ex[e].desc

\* Mutant of ScanEOF: at end-of-stream the scanner discards a segment that
\* has no newline.
ScanEOF_DropsTrailing(e, s) ==
    /\ Alive
    /\ ex[e].pc = "stream"
    /\ ex[e].split[s] = "read"
    /\ AtEOF(e)
    /\ \A i \in DOMAIN ex[e].pipe[s] : ex[e].pipe[s][i][2] = "partial"
    /\ ex' = [ex EXCEPT ![e].split[s] = "eof", ![e].pipe[s] = <<>>]
    /\ UNCHANGED <<orphans, lastOp, cfgVars, logs, mapVars, ioVars, mainVars, startVars, rootCancelled, runCancelled, runVars, watchVars>>

\* streamOutput: scanner.Scan returns false at end-of-stream, which the pipe
\* reaches when no process holds its write end any more and everything
\* written has been read.
ScanEOF(e, s) ==
    /\ Alive
    /\ ex[e].pc = "stream"
    /\ ex[e].split[s] = "read"
    /\ AtEOF(e)
    /\ ex[e].pipe[s] = <<>>
    /\ ex' = [ex EXCEPT ![e].split[s] = "eof"]
    /\ UNCHANGED <<orphans, lastOp, cfgVars, logs, mapVars, ioVars, mainVars, startVars, rootCancelled, runCancelled, runVars, watchVars>>

\* streamOutput: scanner.Scan also returns false on a scan error (a line longer
\* than bufio.MaxScanTokenSize), with the pipe not at end-of-stream.
ScanErr(e, s) ==
    /\ Alive
    /\ ex[e].pc = "stream"
    /\ ex[e].split[s] = "read"
    /\ ex' = [ex EXCEPT ![e].split[s] = "err"]
    /\ UNCHANGED <<orphans, lastOp, cfgVars, logs, mapVars, ioVars, mainVars, startVars, rootCancelled, runCancelled, runVars, watchVars>>

\* streamWg.Wait() returns: both splitters have returned.
StreamsDone(e) ==
    /\ Alive
    /\ ex[e].pc = "stream"
    /\ \A s \in Streams : ex[e].split[s] \in {"eof", "err"}
    /\ ex' = [ex EXCEPT ![e].pc = "wait"]
    /\ UNCHANGED <<orphans, lastOp, cfgVars, logs, mapVars, ioVars, mainVars, startVars, rootCancelled, runCancelled, runVars, watchVars>>

\* Mutant of WaitResult: the check of ctx.Err() is missing.
WaitResult_IgnoresCtx(e) ==
    IF ex[e].status # "0" THEN "err" ELSE "nil"

\* The value runTask returns once cmd.Wait has returned: an error of Wait
\* (non-zero exit, killed) is a failure unless ctx.Err() != nil.
WaitResult(e) ==
    IF ex[e].status # "0" /\ ~CtxErr(e) THEN "err" ELSE "nil"

\* cmd.Wait() returns: the child is reaped, and runTask returns.
WaitReturn(e) ==
    /\ Alive
    /\ ex[e].pc = "wait"
    /\ ex[e].child = "zombie"
    /\ ex' = [ex EXCEPT ![e].pc = "ret", ![e].child = "reaped", ![e].res = WaitResult(e),
                         ![e].why = IF WaitResult(e) = "err" THEN "exit" ELSE "-"]
    /\ NoteReturn(e, WaitResult(e))
    /\ UNCHANGED <<orphans, lastOp, cfgVars, logs, mapVars, ioVars, mainVars, startVars, rootCancelled, runCancelled, gpc, errChan, runPc, firstErr, watchVars>>

----------------------------------------------------------------------------
(* Runner.Run *)

\* The goroutine of task t: runTask returned nil; wg.Done().
GoOk(t) ==
    /\ Alive
    /\ gpc[t] = "run"
    /\ ex[<<t, 1>>].pc = "ret"
    /\ ex[<<t, 1>>].res = "nil"
    /\ gpc' = [gpc EXCEPT ![t] = "done"]
    /\ UNCHANGED <<ex, orphans, lastOp, cfgVars, logs, mapVars, ioVars, mainVars, startVars, rootCancelled, runCancelled, errChan, late, runPc, firstErr, watchVars>>

\* The goroutine of task t: runTask returned an error; errChan <- err
\* (buffered for len(tasks) errors, so the send never blocks).
GoSend(t) ==
    /\ Alive
    /\ gpc[t] = "run"
    /\ ex[<<t, 1>>].pc = "ret"
    /\ ex[<<t, 1>>].res = "err"
    /\ errChan' = Append(errChan, t)
    /\ gpc' = [gpc EXCEPT ![t] = "sent"]
    /\ UNCHANGED <<ex, orphans, lastOp, cfgVars, logs, mapVars, ioVars, mainVars, startVars, rootCancelled, runCancelled, late, runPc, firstErr, watchVars>>

\* Mutant of GoCancel: the goroutine reports its error and does not cancel.
GoCancel_NoCancel(t) ==
    /\ Alive
    /\ gpc[t] = "sent"
    /\ gpc' = [gpc EXCEPT ![t] = "done"]
    /\ UNCHANGED <<ex, orphans, lastOp, cfgVars, logs, mapVars, ioVars, mainVars, startVars, rootCancelled, runCancelled, errChan, late, runPc, firstErr, watchVars>>

\* The goroutine of task t after the send: cancel(), then wg.Done().
GoCancel(t) ==
    /\ Alive
    /\ gpc[t] = "sent"
    /\ runCancelled' = TRUE
    /\ gpc' = [gpc EXCEPT ![t] = "done"]
    /\ UNCHANGED <<ex, orphans, lastOp, cfgVars, logs, mapVars, ioVars, mainVars, startVars, rootCancelled, errChan, late, runPc, firstErr, watchVars>>

\* Mutant of FirstError: every error received overwrites the one kept.
FirstError_KeepsLast(ch) == IF ch = <<>> THEN 0 ELSE ch[Len(ch)]

\* The loop over the closed errChan: the first error received is kept.
FirstError(ch) == IF ch = <<>> THEN 0 ELSE ch[1]

\* Mutant of RunReturn: Run returns as soon as one goroutine has finished.
RunReturn_NoWait ==
    /\ Alive
    /\ runPc = "running"
    /\ \E t \in Tasks : gpc[t] = "done"
    /\ firstErr' = FirstError(errChan)
    /\ runPc' = "returned"
    /\ runCancelled' = TRUE
    /\ UNCHANGED <<ex, orphans, lastOp, cfgVars, logs, mapVars, ioVars, mainVars, startVars, rootCancelled, gpc, errChan, late, watchVars>>

\* wg.Wait() returns, errChan is closed and drained, Run returns firstErr
\* (and its deferred cancel() runs).
RunReturn ==
    /\ Alive
    /\ runPc = "running"
    /\ \A t \in Tasks : gpc[t] = "done"
    /\ firstErr' = FirstError(errChan)
    /\ runPc' = "returned"
    /\ runCancelled' = TRUE
    /\ UNCHANGED <<ex, orphans, lastOp, cfgVars, logs, mapVars, ioVars, mainVars, startVars, rootCancelled, gpc, errChan, late, watchVars>>

\* main: a termination signal arrives on sigChan while main waits in its
\* select; case <-sigChan: cancel().
MainSignal ==
    /\ Alive
    /\ ~rootCancelled
    /\ rootCancelled' = TRUE
    /\ UNCHANGED <<ex, orphans, lastOp, cfgVars, logs, mapVars, ioVars, mainVars, startVars, runCancelled, runVars, watchVars>>

\* main: a further termination signal arrives while main waits in <-errChan
\* after the first.  signal.Notify stores it in sigChan (capacity 1, or drops
\* it when one is stored already); nothing receives from sigChan any more.
MainSignalAgain ==
    /\ Alive
    /\ rootCancelled
    /\ sigChan = 0
    /\ sigChan' = 1
    /\ UNCHANGED <<ex, orphans, lastOp, cfgVars, logs, mapVars, ioVars, exitCode, startVars, rootCancelled, runCancelled, runVars,
                   watchVars>>

\* The supervisor main started (Runner.Run, or Watcher.Start in watch mode)
\* has returned and its result is on main's errChan.
SupervisorReturned == runPc = "returned" \/ startPc = "returned"

\* The result is an error: Run returns its first error, Start returns nil.
SupervisorErr == runPc = "returned" /\ firstErr # 0

\* Mutant of ExitStatus: a failure of the supervisor is not reported.
ExitStatus_AlwaysZero == IF rootCancelled THEN "130" ELSE "0"

\* The exit code main chooses once the supervisor's result is received: 130
\* after a signal, else exitCodeRunFailed for an error, else 0.
ExitStatus == IF rootCancelled THEN "130" ELSE IF SupervisorErr THEN "1" ELSE "0"

\* Mutant of MainExit: main does not wait for the supervisor after a signal.
MainExit_NoWait ==
    /\ Alive
    /\ SupervisorReturned \/ rootCancelled
    /\ exitCode' = ExitStatus
    /\ UNCHANGED <<ex, orphans, lastOp, cfgVars, logs, mapVars, ioVars, sigChan, startVars, rootCancelled, runCancelled, runVars,
                   watchVars>>

\* main receives the supervisor's result from errChan, in the select or after
\* a signal, and the process exits.
MainExit ==
    /\ Alive
    /\ SupervisorReturned
    /\ exitCode' = ExitStatus
    /\ UNCHANGED <<ex, orphans, lastOp, cfgVars, logs, mapVars, ioVars, sigChan, startVars, rootCancelled, runCancelled, runVars,
                   watchVars>>

Next ==
    \/ \E e \in DOMAIN ex : StartCmd(e)
    \/ \E e \in DOMAIN ex : ChildExit(e)
    \/ \E e \in DOMAIN ex : DescExit(e)
    \/ \E e \in DOMAIN ex : CtxKill(e)
    \/ \E e \in DOMAIN ex, s \in Streams : ScanEOF(e, s)
    \/ \E e \in DOMAIN ex, s \in Streams : ScanErr(e, s)
    \/ \E e \in DOMAIN ex : StreamsDone(e)
    \/ \E e \in DOMAIN ex : WaitReturn(e)
    \/ \E t \in Tasks : GoOk(t)
    \/ \E t \in Tasks : GoSend(t)
    \/ \E t \in Tasks : GoCancel(t)
    \/ RunReturn
    \/ MainSignal
    \/ MainExit

Spec == Init /\ [][Next]_vars

\* Plain mode with the signals that arrive after the first one followed.
SigNext ==
    \/ Next
    \/ MainSignalAgain

SigSpec == Init /\ [][SigNext]_vars

----------------------------------------------------------------------------
(* Watcher *)

\* Mutant of ShouldWatch: the --watch flag is ignored.
ShouldWatch_OwnFlagOnly(t) == watch[t]

\* shouldWatch in Start, triggerRestarts and runTaskWithRestart.
ShouldWatch(t) == globalWatch \/ watch[t]

\* The executor launched by the current iteration of t's loop.
Cur(t) == <<t, runs[t]>>

\* Watcher.Start has registered the directories and started watchLoop; main
\* creates a Watcher only if --watch is set or some selected task has
\* watch = true.  Under --watch the tasks' own watch flags change nothing
\* (every test is globalWatch || taskDef.Watch), so they are left unset there.
WatchInit ==
    /\ ex = [e \in {} |-> NewExec]
    /\ orphans = FALSE
    /\ lastOp = {}
    /\ MapIdle
    /\ logs = <<>>
    /\ CfgIdle
    /\ rootCancelled = FALSE
    /\ runCancelled = FALSE
    /\ gpc = [t \in Tasks |-> "run"]
    /\ errChan = <<>>
    /\ late = {}
    /\ runPc = "running"
    /\ firstErr = 0
    /\ globalWatch \in BOOLEAN
    /\ watch \in [Tasks -> BOOLEAN]
    /\ globalWatch # (\E t \in Tasks : watch[t])
    /\ loopAlive = TRUE
    /\ WatchIdle
    /\ MainIdle /\ IoIdle /\ Booted /\ RegIdle

\* Start, for the next task of w.tasks, begins the assignment
\* w.restartChans[t] = make(chan struct{}, 1), which it makes without holding
\* w.mu, with watchLoop and the loops of the earlier tasks already running.
MapWriteBegin(t) ==
    /\ Alive
    /\ lpc[t] = "init"
    /\ \A u \in Tasks : u < t => lpc[u] # "init"
    /\ mapPc = "idle"
    /\ mapPc' = "writing"
    /\ UNCHANGED <<ex, orphans, lastOp, cfgVars, logs, mapRace, ioVars, mainVars, startVars,
                   rootCancelled, runCancelled, runVars, watchVars>>

\* Another goroutine reads w.restartChans: the read overlaps a write when
\* Start is inside its assignment.
MapRead == mapRace' = (mapRace \/ mapPc = "writing")

\* Start, for the next task of w.tasks: restartChans[t] = make(chan struct{}, 1)
\* and go runTaskWithRestart(ctx, t).
StartLaunch(t) ==
    /\ Alive
    /\ lpc[t] = "init"
    /\ \A u \in Tasks : u < t => lpc[u] # "init"
    /\ lpc' = [lpc EXCEPT ![t] = "top"]
    /\ mapPc' = "idle"
    /\ UNCHANGED <<ex, orphans, lastOp, cfgVars, logs, mapRace, ioVars, mainVars, startVars, rootCancelled, runCancelled, runVars, globalWatch, watch, runs, mailbox,
                   timer, loopAlive, windows, accepted, fired, startPc>>

\* The values of event.Op that are followed, each as the set of its bits.
Ops == {{"create"}, {"write"}, {"remove"}, {"rename"}, {"chmod"},
        {"write", "chmod"}, {"remove", "rename"}}
WriteOp == {"write"}

\* Mutant of Significant: every event counts.
Significant_Any(op) == op # {}

\* event.Op&fsnotify.Write == fsnotify.Write ||
\* event.Op&fsnotify.Create == fsnotify.Create
Significant(op) == (op \cap {"write"}) = {"write"} \/ (op \cap {"create"}) = {"create"}

\* Mutant of FsEvent: the pending timer is not stopped and runs its round.
FsEvent_NoStop(op) ==
    /\ Alive
    /\ loopAlive
    /\ fired < MaxWindows
    /\ lastOp' = op
    /\ timer' = IF timer = "off" THEN "armed" ELSE "rearmed"
    /\ fired' = IF timer = "off" THEN fired ELSE fired + 1
    /\ UNCHANGED <<ex, orphans, cfgVars, logs, mapVars, ioVars, mainVars, startVars, rootCancelled, runCancelled, runVars, globalWatch, watch, lpc, runs,
                   mailbox, loopAlive, windows, accepted, startPc>>

\* watchLoop receives an event from fsWatcher.Events.  For a Write or Create
\* event the event is logged under --verbose, the pending timer is stopped
\* and a new one armed (time.AfterFunc); for any other event nothing is done.
FsEvent(op) ==
    /\ Alive
    /\ loopAlive
    /\ lastOp' = op
    /\ IF Significant(op)
       THEN /\ timer # "off" \/ fired < MaxWindows
            /\ timer' = IF timer = "off" THEN "armed" ELSE "rearmed"
            /\ IF verbose
               THEN logEvent(Watcher, "File changed")
               ELSE UNCHANGED <<eventChan, panicked, exitCode>>
       ELSE UNCHANGED <<timer, eventChan, panicked, exitCode>>
    /\ UNCHANGED <<ex, orphans, cfgVars, logs, mapVars, sink, chanClosed, statuses, verbose, uiPc, sigChan, startVars, rootCancelled, runCancelled, runVars, globalWatch, watch, lpc, runs,
                   mailbox, loopAlive, windows, accepted, fired, startPc>>

\* watchLoop: <-ctx.Done(); return.  The armed timer is left armed.
WatchLoopExit ==
    /\ Alive
    /\ loopAlive
    /\ rootCancelled
    /\ loopAlive' = FALSE
    /\ UNCHANGED <<ex, orphans, lastOp, cfgVars, logs, mapVars, ioVars, mainVars, startVars, rootCancelled, runCancelled, runVars, globalWatch, watch, lpc, runs,
                   mailbox, timer, windows, accepted, fired, startPc>>

\* Mutant of TrySend: the pulse is added whether or not one is pending.
TrySend_NoDefault(n) == n + 1

\* select { case restartChan <- struct{}{}: ... default: }: the number of
\* pulses in a mailbox that held n after a pulse was offered to it.
TrySend(n) == IF n < MailboxCap THEN n + 1 ELSE n

\* The debounce window closes: the timer's function runs triggerRestarts,
\* which under w.mu offers a pulse to the mailbox of every watched task in
\* restartChans, without blocking: a full mailbox is left as it is.  Under
\* --verbose every pulse that was put into a mailbox is logged (followed in
\* interactive mode).
TriggerRestarts ==
    /\ Alive
    /\ timer # "off"
    /\ timer' = "off"
    /\ fired' = fired + 1
    /\ mailbox' = [t \in Tasks |->
                      IF lpc[t] # "init" /\ ShouldWatch(t) THEN TrySend(mailbox[t])
                      ELSE mailbox[t]]
    /\ accepted' = [t \in Tasks |->
                      IF lpc[t] # "init" /\ ShouldWatch(t) /\ mailbox[t] = 0
                      THEN accepted[t] + 1 ELSE accepted[t]]
    /\ windows' = [t \in Tasks |-> IF lpc[t] # "init" THEN windows[t] + 1 ELSE windows[t]]
    /\ IF verbose /\ uiPc # "off"
       THEN \E q \in Orders({t \in Tasks : lpc[t] # "init" /\ ShouldWatch(t)
                                                /\ mailbox[t] < MailboxCap}) :
                SendAll([i \in DOMAIN q |-> Event(q[i], "Restarting due to file change...")])
       ELSE UNCHANGED <<eventChan, panicked, exitCode>>
    /\ MapRead
    /\ UNCHANGED <<ex, orphans, lastOp, cfgVars, logs, mapPc, sink, chanClosed, statuses, verbose, uiPc, sigChan, startVars,
                   rootCancelled, runCancelled, runVars, globalWatch, watch, lpc, runs,
                   loopAlive, startPc>>

\* runTaskWithRestart, top of the for loop: taskCtx, cancel :=
\* context.WithCancel(ctx); go func() { done <- r.runTask(taskCtx, t) }().
\* The first iteration comes after restartChan := w.restartChans[taskName],
\* which is read without w.mu.
LoopTop(t) ==
    /\ Alive
    /\ lpc[t] = "top"
    /\ runs[t] < MaxRuns
    /\ runs' = [runs EXCEPT ![t] = @ + 1]
    /\ ex' = [e \in DOMAIN ex \cup {<<t, runs[t] + 1>>} |->
                 IF e = <<t, runs[t] + 1>> THEN NewExec ELSE ex[e]]
    /\ lpc' = [lpc EXCEPT ![t] = "select"]
    /\ IF runs[t] = 0 THEN MapRead ELSE UNCHANGED mapRace
    /\ UNCHANGED <<orphans, lastOp, cfgVars, logs, mapPc, ioVars, mainVars, startVars, rootCancelled, runCancelled, runVars, globalWatch, watch, mailbox, timer,
                   loopAlive, windows, accepted, fired, startPc>>

\* select, case <-ctx.Done(): cancel(); return.
SelCtxDone(t) ==
    /\ Alive
    /\ lpc[t] = "select"
    /\ rootCancelled
    /\ ex' = [ex EXCEPT ![Cur(t)].tctx = TRUE]
    /\ lpc' = [lpc EXCEPT ![t] = "exit"]
    /\ UNCHANGED <<orphans, lastOp, cfgVars, logs, mapVars, ioVars, mainVars, startVars, rootCancelled, runCancelled, runVars, globalWatch, watch, runs, mailbox,
                   timer, loopAlive, windows, accepted, fired, startPc>>

\* Mutant of SelRestart: the loop goes round without waiting for done.
SelRestart_NoDrain(t) ==
    /\ Alive
    /\ lpc[t] = "select"
    /\ mailbox[t] = 1
    /\ mailbox' = [mailbox EXCEPT ![t] = 0]
    /\ ex' = [ex EXCEPT ![Cur(t)].tctx = TRUE]
    /\ lpc' = [lpc EXCEPT ![t] = "top"]
    /\ UNCHANGED <<orphans, lastOp, cfgVars, logs, mapVars, ioVars, mainVars, startVars, rootCancelled, runCancelled, runVars, globalWatch, watch, runs, timer,
                   loopAlive, windows, accepted, fired, startPc>>

\* select, case <-restartChan: a watched task is cancelled and the loop waits
\* for it (<-done); for a task that is not watched the select simply ends and
\* the for loop goes round.
SelRestart(t) ==
    /\ Alive
    /\ lpc[t] = "select"
    /\ mailbox[t] = 1
    /\ mailbox' = [mailbox EXCEPT ![t] = 0]
    /\ IF ShouldWatch(t)
       THEN /\ ex' = [ex EXCEPT ![Cur(t)].tctx = TRUE]
            /\ lpc' = [lpc EXCEPT ![t] = "drain"]
       ELSE /\ ex' = ex
            /\ lpc' = [lpc EXCEPT ![t] = "top"]
    /\ UNCHANGED <<orphans, lastOp, cfgVars, logs, mapVars, ioVars, mainVars, startVars, rootCancelled, runCancelled, runVars, globalWatch, watch, runs, timer,
                   loopAlive, windows, accepted, fired, startPc>>

\* The executor e is gone: its goroutine has ended and its result has been
\* received from done.
Without(e) == [x \in DOMAIN ex \ {e} |-> ex[x]]

\* Mutant of SelDone: a task that is not watched waits for a pulse as well.
SelDone_NoExit(t) ==
    /\ Alive
    /\ lpc[t] = "select"
    /\ ex[Cur(t)].pc = "ret"
    /\ ex' = Without(Cur(t))
    /\ lpc' = [lpc EXCEPT ![t] = "cool"]
    /\ UNCHANGED <<orphans, lastOp, cfgVars, logs, mapVars, ioVars, mainVars, startVars, rootCancelled, runCancelled, runVars, globalWatch, watch, runs, mailbox,
                   timer, loopAlive, windows, accepted, fired, startPc>>

\* Mutant of SelDone: a watched task is launched again without a pulse.
SelDone_NoCooldown(t) ==
    /\ Alive
    /\ lpc[t] = "select"
    /\ ex[Cur(t)].pc = "ret"
    /\ ex' = Without(Cur(t))
    /\ lpc' = [lpc EXCEPT ![t] = IF ShouldWatch(t) THEN "top" ELSE "exit"]
    /\ UNCHANGED <<orphans, lastOp, cfgVars, logs, mapVars, ioVars, mainVars, startVars, rootCancelled, runCancelled, runVars, globalWatch, watch, runs, mailbox,
                   timer, loopAlive, windows, accepted, fired, startPc>>

\* Mutant of SelDone: the loop of every task returns when its executor has
\* returned, watched or not.
SelDone_ExitsAlways(t) ==
    /\ Alive
    /\ lpc[t] = "select"
    /\ ex[Cur(t)].pc = "ret"
    /\ ex' = Without(Cur(t))
    /\ lpc' = [lpc EXCEPT ![t] = "exit"]
    /\ IF ex[Cur(t)].res = "err" /\ verbose
       THEN logEvent(t, "Exited with error")
       ELSE UNCHANGED <<eventChan, panicked, exitCode>>
    /\ UNCHANGED <<orphans, lastOp, cfgVars, logs, mapVars, sink, chanClosed, statuses, verbose, uiPc, sigChan, startVars, rootCancelled, runCancelled, runVars, globalWatch, watch, runs, mailbox,
                   timer, loopAlive, windows, accepted, fired, startPc>>

\* select, case err := <-done: cancel(); an error is logged under --verbose;
\* a task that is not watched returns, a watched one goes on to wait for a
\* pulse.
SelDone(t) ==
    /\ Alive
    /\ lpc[t] = "select"
    /\ ex[Cur(t)].pc = "ret"
    /\ ex' = Without(Cur(t))
    /\ lpc' = [lpc EXCEPT ![t] = IF ShouldWatch(t) THEN "cool" ELSE "exit"]
    /\ IF ex[Cur(t)].res = "err" /\ verbose
       THEN logEvent(t, "Exited with error")
       ELSE UNCHANGED <<eventChan, panicked, exitCode>>
    /\ UNCHANGED <<orphans, lastOp, cfgVars, logs, mapVars, sink, chanClosed, statuses, verbose, uiPc, sigChan, startVars, rootCancelled, runCancelled, runVars, globalWatch, watch, runs, mailbox,
                   timer, loopAlive, windows, accepted, fired, startPc>>

\* After cancel() on a pulse: <-done returns; logEvent("Restarted"); continue.
DrainDone(t) ==
    /\ Alive
    /\ lpc[t] = "drain"
    /\ ex[Cur(t)].pc = "ret"
    /\ ex' = Without(Cur(t))
    /\ lpc' = [lpc EXCEPT ![t] = "top"]
    /\ logEvent(t, "Restarted")
    /\ UNCHANGED <<orphans, lastOp, cfgVars, logs, mapVars, sink, chanClosed, statuses, verbose, uiPc, sigChan, startVars, rootCancelled, runCancelled, runVars, globalWatch, watch, runs, mailbox,
                   timer, loopAlive, windows, accepted, fired, startPc>>

\* Inner select, case <-ctx.Done(): return.
CoolCtxDone(t) ==
    /\ Alive
    /\ lpc[t] = "cool"
    /\ rootCancelled
    /\ lpc' = [lpc EXCEPT ![t] = "exit"]
    /\ UNCHANGED <<ex, orphans, lastOp, cfgVars, logs, mapVars, ioVars, mainVars, startVars, rootCancelled, runCancelled, runVars, globalWatch, watch, runs, mailbox,
                   timer, loopAlive, windows, accepted, fired, startPc>>

\* Mutant of CoolRestart: the loop goes round on a pending pulse and leaves
\* it in the mailbox.
CoolRestart_KeepsPulse(t) ==
    /\ Alive
    /\ lpc[t] = "cool"
    /\ mailbox[t] = 1
    /\ lpc' = [lpc EXCEPT ![t] = "top"]
    /\ UNCHANGED <<ex, orphans, lastOp, cfgVars, logs, mapVars, ioVars, mainVars, startVars, rootCancelled, runCancelled, runVars, globalWatch, watch, runs, mailbox, timer,
                   loopAlive, windows, accepted, fired, startPc>>

\* Inner select, case <-restartChan: logEvent("Restarted"); continue.
CoolRestart(t) ==
    /\ Alive
    /\ lpc[t] = "cool"
    /\ mailbox[t] = 1
    /\ mailbox' = [mailbox EXCEPT ![t] = 0]
    /\ lpc' = [lpc EXCEPT ![t] = "top"]
    /\ logEvent(t, "Restarted")
    /\ UNCHANGED <<ex, orphans, lastOp, cfgVars, logs, mapVars, sink, chanClosed, statuses, verbose, uiPc, sigChan, startVars, rootCancelled, runCancelled, runVars, globalWatch, watch, runs, timer,
                   loopAlive, windows, accepted, fired, startPc>>

\* Start: wg.Wait() returns once every per-task loop has returned; return nil.
StartReturn ==
    /\ Alive
    /\ startPc = "running"
    /\ \A t \in Tasks : lpc[t] = "exit"
    /\ startPc' = "returned"
    /\ UNCHANGED <<ex, orphans, lastOp, cfgVars, logs, mapVars, ioVars, mainVars, startVars, rootCancelled, runCancelled, runVars, globalWatch, watch, lpc, runs,
                   mailbox, timer, loopAlive, windows, accepted, fired>>

WatchNext ==
    \/ \E e \in DOMAIN ex : StartCmd(e)
    \/ \E e \in DOMAIN ex : ChildExit(e)
    \/ \E e \in DOMAIN ex : CtxKill(e)
    \/ \E e \in DOMAIN ex, s \in Streams : ScanEOF(e, s)
    \/ \E e \in DOMAIN ex : StreamsDone(e)
    \/ \E e \in DOMAIN ex : WaitReturn(e)
    \/ \E t \in Tasks : StartLaunch(t)
    \/ FsEvent(WriteOp)
    \/ WatchLoopExit
    \/ TriggerRestarts
    \/ \E t \in Tasks : LoopTop(t)
    \/ \E t \in Tasks : SelCtxDone(t)
    \/ \E t \in Tasks : SelRestart(t)
    \/ \E t \in Tasks : SelDone(t)
    \/ \E t \in Tasks : DrainDone(t)
    \/ \E t \in Tasks : CoolCtxDone(t)
    \/ \E t \in Tasks : CoolRestart(t)
    \/ StartReturn
    \/ MainSignal
    \/ MainExit

WatchSpec == WatchInit /\ [][WatchNext]_vars

\* Start's assignment to the map is followed to its end.
LaunchAfterWrite(t) ==
    /\ mapPc = "writing"
    /\ StartLaunch(t)

\* The runtime notices the unsynchronised access to the map ("fatal error:
\* concurrent map read and map write") and ends the process; it need not
\* notice.
MapFault ==
    /\ Alive
    /\ mapRace
    /\ exitCode' = "2"
    /\ UNCHANGED <<ex, orphans, lastOp, cfgVars, logs, mapVars, sink, eventChan, chanClosed, panicked,
                   statuses, verbose, uiPc, sigChan, startVars, rootCancelled, runCancelled,
                   runVars, watchVars>>

\* Watch mode with Start's accesses to the restartChans map followed, while
\* no signal arrives.
StartNext ==
    \/ \E t \in Tasks : MapWriteBegin(t)
    \/ \E t \in Tasks : LaunchAfterWrite(t)
    \/ MapFault
    \/ FsEvent(WriteOp)
    \/ TriggerRestarts
    \/ \E t \in Tasks : LoopTop(t)
    \/ \E e \in DOMAIN ex : StartCmd(e)
    \/ \E e \in DOMAIN ex : ChildExit(e)
    \/ \E e \in DOMAIN ex : CtxKill(e)
    \/ \E e \in DOMAIN ex, s \in Streams : ScanEOF(e, s)
    \/ \E e \in DOMAIN ex : StreamsDone(e)
    \/ \E e \in DOMAIN ex : WaitReturn(e)
    \/ \E t \in Tasks : SelRestart(t)
    \/ \E t \in Tasks : SelDone(t)
    \/ \E t \in Tasks : DrainDone(t)
    \/ \E t \in Tasks : CoolRestart(t)

StartSpec == WatchInit /\ [][StartNext]_vars

\* Watch mode with filesystem events of every kind, while no signal arrives.
EventNext ==
    \/ \E e \in DOMAIN ex : StartCmd(e)
    \/ \E e \in DOMAIN ex : ChildExit(e)
    \/ \E e \in DOMAIN ex : CtxKill(e)
    \/ \E e \in DOMAIN ex, s \in Streams : ScanEOF(e, s)
    \/ \E e \in DOMAIN ex : StreamsDone(e)
    \/ \E e \in DOMAIN ex : WaitReturn(e)
    \/ \E t \in Tasks : StartLaunch(t)
    \/ \E op \in Ops : FsEvent(op)
    \/ TriggerRestarts
    \/ \E t \in Tasks : LoopTop(t)
    \/ \E t \in Tasks : SelRestart(t)
    \/ \E t \in Tasks : SelDone(t)
    \/ \E t \in Tasks : DrainDone(t)
    \/ \E t \in Tasks : CoolRestart(t)

EventSpec == WatchInit /\ [][EventNext]_vars

----------------------------------------------------------------------------
(* main, before the supervisor *)

\* The names that have a definition in the manifest (cfg.TaskDefs): the
\* selected tasks and one more.
TaskDefs == 1..(NumTasks + 1)

\* The names that can be given on the command line: 0 has no definition.
ArgNames == 0..(NumTasks + 1)

\* The sequences over S of length at most n.
SeqsUpTo(S, n) == UNION {[1..k -> S] : k \in 0..n}

\* The elements of a sequence.
Range(q) == {q[i] : i \in DOMAIN q}

\* The process starts: flags are parsed and nothing has run yet.  A manifest
\* that Load accepts lists only defined tasks.
BootInit ==
    /\ ex = [e \in {} |-> NewExec]
    /\ orphans = TRUE
    /\ lastOp = {}
    /\ MapIdle
    /\ logs = <<>>
    /\ CfgIdle
    /\ rootCancelled = FALSE
    /\ runCancelled = FALSE
    /\ gpc = [t \in Tasks |-> "run"]
    /\ errChan = <<>>
    /\ late = {}
    /\ runPc = "running"
    /\ firstErr = 0
    /\ globalWatch = FALSE
    /\ watch = [t \in Tasks |-> FALSE]
    /\ loopAlive = FALSE
    /\ WatchIdle
    /\ MainIdle /\ IoIdle /\ RegIdle
    /\ bootPc = "stat"
    /\ cfgFile \in {"missing", "bad", "ok"}
    /\ cfgTasks \in {[i \in 1..n |-> i] : n \in IF cfgFile = "ok" THEN 0..(NumTasks + 1) ELSE {0}}
    /\ args \in SeqsUpTo(ArgNames, MaxArgs)
    /\ tasksToRun = <<>>
    /\ stderrMsg = "-"

\* Mutant of BootStat: the existence of the file is not checked.
BootStat_NoCheck ==
    /\ bootPc = "stat"
    /\ bootPc' = "load"
    /\ UNCHANGED <<ex, orphans, lastOp, cfgVars, logs, mapVars, ioVars, mainVars, cfgFile, cfgTasks, args, tasksToRun, stderrMsg, regVars,
                   rootCancelled, runCancelled, runVars, watchVars>>

\* main: os.Stat(configPath); when the file does not exist, a message on
\* standard error and os.Exit(exitCodeConfigNotFound).
BootStat ==
    /\ bootPc = "stat"
    /\ IF cfgFile = "missing"
       THEN bootPc' = "exited" /\ exitCode' = "2" /\ stderrMsg' = "no config found"
       ELSE bootPc' = "load" /\ UNCHANGED <<exitCode, stderrMsg>>
    /\ UNCHANGED <<ex, orphans, lastOp, cfgVars, logs, mapVars, ioVars, sigChan, cfgFile, cfgTasks, args, tasksToRun, regVars,
                   rootCancelled, runCancelled, runVars, watchVars>>

\* main: config.Load(configPath); on an error a message on standard error and
\* os.Exit(exitCodeParseFailed).
BootLoad ==
    /\ bootPc = "load"
    /\ IF cfgFile = "bad"
       THEN bootPc' = "exited" /\ exitCode' = "3" /\ stderrMsg' = "failed to parse config"
       ELSE bootPc' = "select" /\ UNCHANGED <<exitCode, stderrMsg>>
    /\ UNCHANGED <<ex, orphans, lastOp, cfgVars, logs, mapVars, ioVars, sigChan, cfgFile, cfgTasks, args, tasksToRun, regVars,
                   rootCancelled, runCancelled, runVars, watchVars>>

\* Mutant of GetTasksToRun: the positional names are ignored.
GetTasksToRun_IgnoresArgs(a) == cfgTasks

\* Config.GetTasksToRun, when every name of args is defined: the manifest's
\* list when no name is given, else the names as given.
GetTasksToRun(a) == IF a = <<>> THEN cfgTasks ELSE a

\* main: cfg.GetTasksToRun(flag.Args()); a name without a definition is an
\* error (exitCodeRunFailed), an empty list ends the process with 0.
BootSelect ==
    /\ bootPc = "select"
    /\ IF args # <<>> /\ ~(Range(args) \subseteq TaskDefs)
       THEN /\ bootPc' = "exited" /\ exitCode' = "1" /\ stderrMsg' = "task not defined"
            /\ UNCHANGED tasksToRun
       ELSE IF GetTasksToRun(args) = <<>>
       THEN /\ bootPc' = "exited" /\ exitCode' = "0" /\ stderrMsg' = "no tasks to run"
            /\ UNCHANGED tasksToRun
       ELSE /\ bootPc' = "run" /\ tasksToRun' = GetTasksToRun(args)
            /\ UNCHANGED <<exitCode, stderrMsg>>
    /\ UNCHANGED <<ex, orphans, lastOp, cfgVars, logs, mapVars, ioVars, sigChan, cfgFile, cfgTasks, args, regVars,
                   rootCancelled, runCancelled, runVars, watchVars>>

\* The executor of the i-th entry of the list q: <<name, k>> for the k-th
\* occurrence of the name.
ExecOf(q, i) == <<q[i], Cardinality({j \in 1..i : q[j] = q[i]})>>

\* main starts the supervisor, and Run launches one goroutine, each calling
\* runTask, for every entry of r.tasks.
BootRun ==
    /\ bootPc = "run"
    /\ ex = [e \in {} |-> NewExec]
    /\ ex' = [e \in {ExecOf(tasksToRun, i) : i \in DOMAIN tasksToRun} |-> NewExec]
    /\ UNCHANGED <<orphans, lastOp, cfgVars, logs, mapVars, ioVars, mainVars, startVars, rootCancelled, runCancelled, runVars, watchVars>>

BootNext ==
    \/ BootStat
    \/ BootLoad
    \/ BootSelect
    \/ BootRun
    \/ \E e \in DOMAIN ex : StartCmd(e)

BootSpec == BootInit /\ [][BootNext]_vars

----------------------------------------------------------------------------
(* Watcher.Start: registration of the directories of one watched task *)

\* Base names of directories, as <<first character, rest>>.  The root's name
\* is filepath.Base of the watch root: "." when the task has no path.
DirNames ==
    {<<".", "">>, <<".", "git">>, <<"s", "rc">>, <<"n", "ode_modules">>,
     <<"v", "endor">>, <<"d", "ist">>, <<"b", "uild">>}

Dirs == 1..MaxDirs

\* addWatchRecursive's test on filepath.Base(path): base[0] == '.' or one of
\* the four names.
Excluded(n) ==
    \/ n[1] = "."
    \/ n \in {<<"n", "ode_modules">>, <<"v", "endor">>, <<"d", "ist">>, <<"b", "uild">>}

\* The directories directly below d.
Children(d) == {c \in Dirs : c # 1 /\ dirParent[c] = d}

\* Start calls addWatchRecursive(watchDir) for a watched task: filepath.Walk
\* is about to visit the root of a tree of directories.
RegInit ==
    /\ ex = [e \in {} |-> NewExec]
    /\ orphans = FALSE
    /\ lastOp = {}
    /\ MapIdle
    /\ logs = <<>>
    /\ CfgIdle
    /\ rootCancelled = FALSE
    /\ runCancelled = FALSE
    /\ gpc = [t \in Tasks |-> "run"]
    /\ errChan = <<>>
    /\ late = {}
    /\ runPc = "running"
    /\ firstErr = 0
    /\ globalWatch = TRUE
    /\ watch = [t \in Tasks |-> FALSE]
    /\ loopAlive = FALSE
    /\ WatchIdle
    /\ MainIdle /\ IoIdle /\ Booted
    /\ dirName \in [Dirs -> DirNames]
    /\ dirParent \in [Dirs -> Dirs]
    /\ \A d \in Dirs : IF d = 1 THEN dirParent[d] = 1 ELSE dirParent[d] < d
    /\ \A d \in Dirs : d # 1 => dirName[d] # <<".", "">>
    /\ pending = {1}
    /\ registered = {}
    /\ regPc = "walk"

\* The walk function is called for directory d: an excluded directory is
\* skipped with its subtree (filepath.SkipDir), any other is added to the
\* fsWatcher and its subdirectories are visited later.
WalkVisit(d) ==
    /\ regPc = "walk"
    /\ d \in pending
    /\ IF Excluded(dirName[d])
       THEN pending' = pending \ {d} /\ UNCHANGED registered
       ELSE pending' = (pending \ {d}) \cup Children(d) /\ registered' = registered \cup {d}
    /\ UNCHANGED <<ex, orphans, lastOp, cfgVars, logs, mapVars, ioVars, mainVars, bootVars, dirName, dirParent, regPc, rootCancelled,
                   runCancelled, runVars, watchVars>>

\* fsWatcher.Add(path) fails: the walk ends and Start returns the error.
WalkAddFails(d) ==
    /\ regPc = "walk"
    /\ d \in pending
    /\ ~Excluded(dirName[d])
    /\ regPc' = "failed"
    /\ UNCHANGED <<ex, orphans, lastOp, cfgVars, logs, mapVars, ioVars, mainVars, bootVars, dirName, dirParent, pending, registered,
                   rootCancelled, runCancelled, runVars, watchVars>>

\* filepath.Walk returns nil: addWatchRecursive has succeeded.
WalkDone ==
    /\ regPc = "walk"
    /\ pending = {}
    /\ regPc' = "done"
    /\ UNCHANGED <<ex, orphans, lastOp, cfgVars, logs, mapVars, ioVars, mainVars, bootVars, dirName, dirParent, pending, registered,
                   rootCancelled, runCancelled, runVars, watchVars>>

\* Start returns the error of addWatchRecursive ("failed to watch directory
\* for task ..."): no watchLoop is started and no task is launched.
StartAborted == regPc = "failed"

\* The directory whose registration failed: the one the walk was at.
RootFailed == 1 \in pending

RegNext ==
    \/ \E d \in Dirs : WalkVisit(d)
    \/ \E d \in Dirs : WalkAddFails(d)
    \/ WalkDone

RegSpec == RegInit /\ [][RegNext]_vars

----------------------------------------------------------------------------
(* Output *)

\* The outputWriter an executor writes through: in plain mode the one of the
\* Runner main created, shared by all executors; in watch mode every iteration
\* of a per-task loop creates its own Runner (New), with its own outputWriter
\* and its own mutex.
OutputWriterOf(e) == IF lpc[e[1]] = "init" THEN <<>> ELSE e

\* The splitters that are inside WritePrefix.
Writing == {w \in (DOMAIN ex) \X Streams : ex[w[1]].split[w[2]] = "write"}

\* ow.mu of outputWriter o is held.
MuHeld(o) == \E w \in Writing : OutputWriterOf(w[1]) = o

\* streamOutput: scanner.Scan returns a line; WritePrefix locks ow.mu of the
\* executor's Runner and starts writing the labelled line.
WriteBegin(e, s) ==
    /\ Alive
    /\ ex[e].pc = "stream"
    /\ ex[e].split[s] = "read"
    /\ ~MuHeld(OutputWriterOf(e))
    /\ ex' = [ex EXCEPT ![e].split[s] = "write"]
    /\ UNCHANGED <<orphans, lastOp, cfgVars, logs, mapVars, ioVars, mainVars, startVars, rootCancelled, runCancelled, runVars, watchVars>>

\* WritePrefix returns: the line is written and ow.mu unlocked.
WriteEnd(e, s) ==
    /\ Alive
    /\ ex[e].split[s] = "write"
    /\ ex' = [ex EXCEPT ![e].split[s] = "read"]
    /\ UNCHANGED <<orphans, lastOp, cfgVars, logs, mapVars, ioVars, mainVars, startVars, rootCancelled, runCancelled, runVars, watchVars>>

\* Watch mode with the lines of output followed, while no file changes.
OutNext ==
    \/ \E e \in DOMAIN ex : StartCmd(e)
    \/ \E e \in DOMAIN ex : ChildExit(e)
    \/ \E e \in DOMAIN ex : CtxKill(e)
    \/ \E e \in DOMAIN ex, s \in Streams : WriteBegin(e, s)
    \/ \E e \in DOMAIN ex, s \in Streams : WriteEnd(e, s)
    \/ \E e \in DOMAIN ex, s \in Streams : ScanEOF(e, s)
    \/ \E e \in DOMAIN ex : StreamsDone(e)
    \/ \E e \in DOMAIN ex : WaitReturn(e)
    \/ \E t \in Tasks : StartLaunch(t)
    \/ WatchLoopExit
    \/ \E t \in Tasks : LoopTop(t)
    \/ \E t \in Tasks : SelCtxDone(t)
    \/ \E t \in Tasks : SelDone(t)
    \/ \E t \in Tasks : CoolCtxDone(t)
    \/ StartReturn
    \/ MainSignal
    \/ MainExit

OutSpec == WatchInit /\ [][OutNext]_vars

----------------------------------------------------------------------------
(* config.Load *)

\* The values of the cmd key of a [task.NAME] table: the key is absent, or it
\* is the empty string, or it is a command.
CmdKeys == {"absent", "", "sh"}

\* The documents that parse: a tasks array of at most MaxArgs names and a
\* table for some of the names.
Documents ==
    {[kind |-> "doc", tasks |-> q, defs |-> d] :
        q \in SeqsUpTo(TaskDefs, MaxArgs),
        d \in UNION {[S -> CmdKeys] : S \in SUBSET TaskDefs}}

\* toml.Unmarshal into Config: Tasks is the array, TaskDefs has one TaskDef
\* per table, and a TaskDef whose cmd key is absent has Cmd = "" (the zero
\* value).
Unmarshal(doc) ==
    [Tasks |-> doc.tasks,
     TaskDefs |-> [n \in DOMAIN doc.defs |->
                      [Cmd |-> IF doc.defs[n] = "absent" THEN "" ELSE doc.defs[n]]]]

\* Mutant of Load: the definitions are not validated.
Load_NoCmdCheck(file) ==
    IF file.kind = "unreadable" THEN [err |-> "read"]
    ELSE IF file.kind = "notTOML" THEN [err |-> "failed to parse TOML"]
    ELSE LET cfg == Unmarshal(file)
         IN  IF \E i \in DOMAIN cfg.Tasks : cfg.Tasks[i] \notin DOMAIN cfg.TaskDefs
             THEN [err |-> "listed but not defined"]
             ELSE [err |-> "nil", cfg |-> cfg]

\* config.Load: os.ReadFile, toml.Unmarshal, then the two validations.
Load(file) ==
    IF file.kind = "unreadable" THEN [err |-> "read"]
    ELSE IF file.kind = "notTOML" THEN [err |-> "failed to parse TOML"]
    ELSE LET cfg == Unmarshal(file)
         IN  IF \E i \in DOMAIN cfg.Tasks : cfg.Tasks[i] \notin DOMAIN cfg.TaskDefs
             THEN [err |-> "listed but not defined"]
             ELSE IF \E n \in DOMAIN cfg.TaskDefs : cfg.TaskDefs[n].Cmd = ""
             THEN [err |-> "missing required 'cmd' field"]
             ELSE [err |-> "nil", cfg |-> cfg]

\* Nothing runs; Load is about to be called on some file.
LoadInit ==
    /\ ex = [e \in {} |-> NewExec]
    /\ orphans = FALSE
    /\ lastOp = {}
    /\ MapIdle
    /\ logs = <<>>
    /\ rootCancelled = FALSE
    /\ runCancelled = FALSE
    /\ gpc = [t \in Tasks |-> "run"]
    /\ errChan = <<>>
    /\ late = {}
    /\ runPc = "running"
    /\ firstErr = 0
    /\ globalWatch = FALSE
    /\ watch = [t \in Tasks |-> FALSE]
    /\ loopAlive = FALSE
    /\ WatchIdle
    /\ MainIdle /\ IoIdle /\ RegIdle
    /\ bootPc = "load"
    /\ cfgFile = "ok"
    /\ cfgTasks = <<>>
    /\ args = <<>>
    /\ tasksToRun = <<>>
    /\ stderrMsg = "-"
    /\ manifest \in Documents \cup {[kind |-> "unreadable"], [kind |-> "notTOML"]}
    /\ loaded = [err |-> "-"]

\* The call of config.Load.
LoadCall ==
    /\ manifest.kind # "none"
    /\ loaded.err = "-"
    /\ loaded' = Load(manifest)
    /\ UNCHANGED <<ex, orphans, lastOp, manifest, logs, mapVars, ioVars, mainVars, startVars, rootCancelled,
                   runCancelled, runVars, watchVars>>

LoadNext == LoadCall

LoadSpec == LoadInit /\ [][LoadNext]_vars

----------------------------------------------------------------------------
(* Lines: what the child writes and what streamOutput makes of it *)

\* A line is <<i, k>>: the i-th line the child writes on the stream, and k
\* says whether it ends with a newline and fits the scanner's buffer
\* ("short"), ends with a newline and is longer than bufio.MaxScanTokenSize
\* ("long"), or is a non-empty segment that fits the buffer and has no
\* newline ("partial").  Its text is taken to be different from the text of
\* every other line: the text of line i of stream s is <<s, i>>.
LineKinds == {"short", "long", "partial"}

\* The stream ends with a segment that has no newline.
Unterminated(w) == w # <<>> /\ w[Len(w)][2] = "partial"

\* The child writes one more line on stream s.  Nothing is followed after a
\* segment without newline: what the child writes next would extend it.
ChildWrite(e, s, k) ==
    /\ ex[e].child = "run"
    /\ Len(ex[e].wrote[s]) < MaxLines
    /\ ~Unterminated(ex[e].wrote[s])
    /\ LET l == <<Len(ex[e].wrote[s]) + 1, k>>
       IN  ex' = [ex EXCEPT ![e].wrote[s] = Append(@, l), ![e].pipe[s] = Append(@, l)]
    /\ UNCHANGED <<orphans, lastOp, cfgVars, logs, mapVars, ioVars, mainVars, startVars, rootCancelled, runCancelled, runVars,
                   watchVars>>

\* scanner.Text() for a line of stream s: the bytes of the line without its
\* terminator.
Text(s, l) == <<s, l[1]>>

\* What outputWriter.WritePrefix(prefix, text + "\n") writes:
\* fmt.Fprintf(ow.writer, "[%s] %s", prefix, text): the label and the text.
Labelled(prefix, text) == <<prefix, text>>

\* A Runner that was given an event channel publishes a line of a task as
\* one LogEvent on it.
Publish(task, text) == Send(Event(task, text))

\* A splitter hands on a line of its task: to the line-prefix writer, or, in
\* interactive mode (an event channel is set), to the event channel.
Emit(task, text) ==
    IF uiPc = "off"
    THEN /\ sink' = Append(sink, Labelled(task, text))
         /\ UNCHANGED <<eventChan, panicked, exitCode>>
    ELSE /\ Publish(task, text)
         /\ UNCHANGED sink

\* Mutant of ScanLine: the splitter hands on the newest line in the pipe.
ScanLine_TakesLast(e, s) ==
    /\ Alive
    /\ ex[e].pc = "stream"
    /\ ex[e].split[s] = "read"
    /\ ex[e].pipe[s] # <<>>
    /\ ex[e].pipe[s][Len(ex[e].pipe[s])][2] = "short"
    /\ ex' = [ex EXCEPT ![e].pipe[s] = SubSeq(@, 1, Len(@) - 1)]
    /\ Emit(e[1], Text(s, ex[e].pipe[s][Len(ex[e].pipe[s])]))
    /\ UNCHANGED <<orphans, lastOp, cfgVars, logs, mapVars, chanClosed, statuses, verbose, uiPc, sigChan, startVars, rootCancelled,
                   runCancelled, runVars, watchVars>>

\* streamOutput: scanner.Scan returns the next line of the pipe, and the loop
\* body hands it on (WritePrefix(taskName, line + "\n"), under ow.mu).
\* bufio.ScanLines returns a segment without newline as a token once the
\* pipe is at end-of-stream.
ScanLine(e, s) ==
    /\ Alive
    /\ ex[e].pc = "stream"
    /\ ex[e].split[s] = "read"
    /\ ex[e].pipe[s] # <<>>
    /\ \/ Head(ex[e].pipe[s])[2] = "short"
       \/ Head(ex[e].pipe[s])[2] = "partial" /\ AtEOF(e)
    /\ ex' = [ex EXCEPT ![e].pipe[s] = Tail(@)]
    /\ Emit(e[1], Text(s, Head(ex[e].pipe[s])))
    /\ UNCHANGED <<orphans, lastOp, cfgVars, logs, mapVars, chanClosed, statuses, verbose, uiPc, sigChan, startVars, rootCancelled,
                   runCancelled, runVars, watchVars>>

\* streamOutput: the next line does not fit the scanner's buffer: Scan returns
\* false with bufio.ErrTooLong, the loop ends and streamOutput returns.  The
\* line, and whatever follows it in the pipe, is never read.
ScanTooLong(e, s) ==
    /\ Alive
    /\ ex[e].pc = "stream"
    /\ ex[e].split[s] = "read"
    /\ ex[e].pipe[s] # <<>>
    /\ Head(ex[e].pipe[s])[2] = "long"
    /\ ex' = [ex EXCEPT ![e].split[s] = "err"]
    /\ UNCHANGED <<orphans, lastOp, cfgVars, logs, mapVars, ioVars, mainVars, startVars, rootCancelled, runCancelled, runVars,
                   watchVars>>

\* An executor whose child ran, printed nothing and exited with 0, and whose
\* runTask has returned nil.
DoneExec ==
    [NewExec EXCEPT !.pc = "ret", !.res = "nil", !.child = "reaped", !.status = "0",
                    !.split = [s \in Streams |-> "eof"]]

\* Plain mode, with the lines of one child followed: the executors of the
\* other tasks have returned nil and their goroutines have finished.
LineInit ==
    /\ ex = [e \in Tasks \X {1} |-> IF e[1] = 1 THEN NewExec ELSE DoneExec]
    /\ orphans = TRUE
    /\ lastOp = {}
    /\ MapIdle
    /\ logs = <<>>
    /\ CfgIdle
    /\ rootCancelled = FALSE
    /\ runCancelled = FALSE
    /\ gpc = [t \in Tasks |-> IF t = 1 THEN "run" ELSE "done"]
    /\ errChan = <<>>
    /\ late = {}
    /\ runPc = "running"
    /\ firstErr = 0
    /\ globalWatch = FALSE
    /\ watch = [t \in Tasks |-> FALSE]
    /\ loopAlive = FALSE
    /\ WatchIdle
    /\ MainIdle /\ IoIdle /\ Booted /\ RegIdle

LineNext ==
    \/ \E e \in DOMAIN ex : StartCmd(e)
    \/ \E e \in DOMAIN ex, s \in Streams, k \in LineKinds : ChildWrite(e, s, k)
    \/ \E e \in DOMAIN ex : ChildExit(e)
    \/ \E e \in DOMAIN ex : DescExit(e)
    \/ \E e \in DOMAIN ex : CtxKill(e)
    \/ \E e \in DOMAIN ex, s \in Streams : ScanLine(e, s)
    \/ \E e \in DOMAIN ex, s \in Streams : ScanTooLong(e, s)
    \/ \E e \in DOMAIN ex, s \in Streams : ScanEOF(e, s)
    \/ \E e \in DOMAIN ex : StreamsDone(e)
    \/ \E e \in DOMAIN ex : WaitReturn(e)
    \/ \E t \in Tasks : GoOk(t)
    \/ \E t \in Tasks : GoSend(t)
    \/ \E t \in Tasks : GoCancel(t)
    \/ RunReturn
    \/ MainSignal
    \/ MainExit

LineSpec == LineInit /\ [][LineNext]_vars

----------------------------------------------------------------------------
(* main, interactive mode *)

\* Interactive plain mode: main has made eventChan, started the goroutine that
\* calls Runner.Run and closes eventChan after it, and is in ui.Start; Run has
\* launched one goroutine per task.
UiInit ==
    /\ ex = [e \in Tasks \X {1} |-> NewExec]
    /\ orphans = FALSE
    /\ lastOp = {}
    /\ MapIdle
    /\ logs = <<>>
    /\ CfgIdle
    /\ rootCancelled = FALSE
    /\ runCancelled = FALSE
    /\ gpc = [t \in Tasks |-> "run"]
    /\ errChan = <<>>
    /\ late = {}
    /\ runPc = "running"
    /\ firstErr = 0
    /\ globalWatch = FALSE
    /\ watch = [t \in Tasks |-> FALSE]
    /\ loopAlive = FALSE
    /\ WatchIdle
    /\ MainIdle /\ Booted /\ RegIdle
    /\ sink = <<>>
    /\ eventChan = <<>>
    /\ chanClosed = FALSE
    /\ panicked = FALSE
    /\ statuses = [t \in Tasks |-> "idle"]
    /\ verbose = FALSE
    /\ uiPc = "tui"

\* Mutant of AppendLog: once the ring is full a new entry is not taken.
AppendLog_KeepsOldest(l, ev) ==
    IF Len(l) < LogCap THEN Append(l, Labelled(ev.Task, ev.Line)) ELSE l

\* Model.Update for a logMsg, m.logs: the entry "[task] line" is appended and
\* the last 500 entries are kept.
AppendLog(l, ev) ==
    LET a == Append(l, Labelled(ev.Task, ev.Line))
    IN  IF Len(a) > LogCap THEN SubSeq(a, Len(a) - LogCap + 1, Len(a)) ELSE a

\* Model.Update for a logMsg, m.statuses: whatever the event says, its task
\* is running.
Update(st, ev) ==
    [t \in DOMAIN st \cup {ev.Task} |-> IF t = ev.Task THEN "running" ELSE st[t]]

\* ui.Start's feeder goroutine receives the next event from the channel and
\* sends it to the program as a logMsg; Model.Update handles it.  Once the
\* program has finished the message goes nowhere.
UiRecv ==
    /\ Alive
    /\ uiPc # "off"
    /\ eventChan # <<>>
    /\ eventChan' = Tail(eventChan)
    /\ statuses' = IF uiPc = "tui" THEN Update(statuses, Head(eventChan)) ELSE statuses
    /\ logs' = IF uiPc = "tui" THEN AppendLog(logs, Head(eventChan)) ELSE logs
    /\ UNCHANGED <<ex, orphans, lastOp, cfgVars, mapVars, sink, chanClosed, panicked, verbose, uiPc, mainVars, startVars,
                   rootCancelled, runCancelled, runVars, watchVars>>

\* The goroutine main started: the supervisor has returned; close(eventChan).
CloseEvents ==
    /\ Alive
    /\ uiPc # "off"
    /\ SupervisorReturned
    /\ ~chanClosed
    /\ chanClosed' = TRUE
    /\ UNCHANGED <<ex, orphans, lastOp, cfgVars, logs, mapVars, sink, eventChan, panicked, statuses, verbose, uiPc, mainVars, startVars,
                   rootCancelled, runCancelled, runVars, watchVars>>

\* Mutant of UiQuit: main waits for the supervisor before it returns.
UiQuit_WaitsForSupervisor ==
    /\ Alive
    /\ uiPc = "tui"
    /\ SupervisorReturned
    /\ uiPc' = "returning"
    /\ rootCancelled' = TRUE
    /\ loopAlive' = FALSE
    /\ UNCHANGED <<ex, orphans, lastOp, cfgVars, logs, mapVars, sink, eventChan, chanClosed, panicked, statuses, verbose, mainVars,
                   startVars, runCancelled, runVars, globalWatch, watch, lpc, runs, mailbox,
                   timer, windows, accepted, fired, startPc>>

\* The user presses q, Esc or Ctrl-C: Update returns tea.Quit, the program
\* ends, ui.Start returns nil and main returns; its deferred calls run:
\* watcher.Close() (the fsWatcher's channels are closed and watchLoop returns)
\* and cancel().
UiQuit ==
    /\ Alive
    /\ uiPc = "tui"
    /\ uiPc' = "returning"
    /\ rootCancelled' = TRUE
    /\ loopAlive' = FALSE
    /\ UNCHANGED <<ex, orphans, lastOp, cfgVars, logs, mapVars, sink, eventChan, chanClosed, panicked, statuses, verbose, mainVars,
                   startVars, runCancelled, runVars, globalWatch, watch, lpc, runs, mailbox,
                   timer, windows, accepted, fired, startPc>>

\* main has returned: the process exits with status 0, whatever its other
\* goroutines are doing.
UiExit ==
    /\ Alive
    /\ uiPc = "returning"
    /\ exitCode' = "0"
    /\ UNCHANGED <<ex, orphans, lastOp, cfgVars, logs, mapVars, ioVars, sigChan, startVars, rootCancelled, runCancelled,
                   runVars, watchVars>>

\* Interactive mode is followed for children that print one line at most.
ChildWriteOnce(e, s, k) ==
    /\ \A r \in Streams : ex[e].wrote[r] = <<>>
    /\ ChildWrite(e, s, k)

UiNext ==
    \/ \E e \in DOMAIN ex : StartCmd(e)
    \/ \E e \in DOMAIN ex, s \in Streams, k \in LineKinds : ChildWriteOnce(e, s, k)
    \/ \E e \in DOMAIN ex : ChildExit(e)
    \/ \E e \in DOMAIN ex : CtxKill(e)
    \/ \E e \in DOMAIN ex, s \in Streams : ScanLine(e, s)
    \/ \E e \in DOMAIN ex, s \in Streams : ScanTooLong(e, s)
    \/ \E e \in DOMAIN ex, s \in Streams : ScanEOF(e, s)
    \/ \E e \in DOMAIN ex : StreamsDone(e)
    \/ \E e \in DOMAIN ex : WaitReturn(e)
    \/ \E t \in Tasks : GoOk(t)
    \/ \E t \in Tasks : GoSend(t)
    \/ \E t \in Tasks : GoCancel(t)
    \/ RunReturn
    \/ CloseEvents
    \/ UiRecv
    \/ UiQuit
    \/ UiExit

UiSpec == UiInit /\ [][UiNext]_vars

\* The dashboard's ring: ui.Start is running, and the events on its channel
\* are the lines of one task, numbered in the order in which they are sent.
RingInit ==
    /\ ex = [e \in Tasks \X {1} |-> NewExec]
    /\ orphans = FALSE
    /\ lastOp = {}
    /\ MapIdle
    /\ logs = <<>>
    /\ CfgIdle
    /\ rootCancelled = FALSE
    /\ runCancelled = FALSE
    /\ gpc = [t \in Tasks |-> "run"]
    /\ errChan = <<>>
    /\ late = {}
    /\ runPc = "running"
    /\ firstErr = 0
    /\ globalWatch = FALSE
    /\ watch = [t \in Tasks |-> FALSE]
    /\ loopAlive = FALSE
    /\ WatchIdle
    /\ MainIdle /\ Booted /\ RegIdle
    /\ sink = <<>>
    /\ eventChan = <<>>
    /\ chanClosed = FALSE
    /\ panicked = FALSE
    /\ statuses = [t \in Tasks |-> "idle"]
    /\ verbose = FALSE
    /\ uiPc = "tui"

\* The number of events sent so far.
Sent ==
    IF eventChan # <<>> THEN eventChan[Len(eventChan)].Line[2]
    ELSE IF logs # <<>> THEN logs[Len(logs)][2][2]
    ELSE 0

\* The next event is sent on the channel.
EventArrives ==
    /\ Sent < MaxEvents
    /\ Len(eventChan) < MaxBacklog
    /\ Send(Event(1, <<"stdout", Sent + 1>>))
    /\ UNCHANGED <<ex, orphans, lastOp, cfgVars, logs, mapVars, sink, chanClosed, statuses, verbose, uiPc, sigChan,
                   startVars, rootCancelled, runCancelled, runVars, watchVars>>

RingNext ==
    \/ EventArrives
    \/ UiRecv

RingSpec == RingInit /\ [][RingNext]_vars

\* Interactive watch mode: main has made eventChan, handed it to the Watcher,
\* started the goroutine that calls Watcher.Start and closes eventChan after
\* it, and is in ui.Start; Start has registered the directories and started
\* watchLoop.
UiWatchInit ==
    /\ ex = [e \in {} |-> NewExec]
    /\ orphans = FALSE
    /\ lastOp = {}
    /\ MapIdle
    /\ logs = <<>>
    /\ CfgIdle
    /\ rootCancelled = FALSE
    /\ runCancelled = FALSE
    /\ gpc = [t \in Tasks |-> "run"]
    /\ errChan = <<>>
    /\ late = {}
    /\ runPc = "running"
    /\ firstErr = 0
    /\ globalWatch \in BOOLEAN
    /\ watch \in [Tasks -> BOOLEAN]
    /\ globalWatch # (\E t \in Tasks : watch[t])
    /\ loopAlive = TRUE
    /\ WatchIdle
    /\ MainIdle /\ Booted /\ RegIdle
    /\ sink = <<>>
    /\ eventChan = <<>>
    /\ chanClosed = FALSE
    /\ panicked = FALSE
    /\ statuses = [t \in Tasks |-> "idle"]
    /\ verbose \in BOOLEAN
    /\ uiPc = "tui"

\* Interactive watch mode is followed for children that print nothing and for
\* one filesystem event, which comes less than a debounce period before the
\* user quits: the timer it arms is pending at the quit.
FsEventOnce ==
    /\ fired = 0
    /\ timer = "off"
    /\ FsEvent(WriteOp)

\* The window of that event closes after the quit.
TriggerAfterQuit ==
    /\ uiPc # "tui"
    /\ TriggerRestarts

UiWatchNext ==
    \/ \E e \in DOMAIN ex : StartCmd(e)
    \/ \E e \in DOMAIN ex : ChildExit(e)
    \/ \E e \in DOMAIN ex : CtxKill(e)
    \/ \E e \in DOMAIN ex, s \in Streams : ScanEOF(e, s)
    \/ \E e \in DOMAIN ex : StreamsDone(e)
    \/ \E e \in DOMAIN ex : WaitReturn(e)
    \/ \E t \in Tasks : StartLaunch(t)
    \/ FsEventOnce
    \/ TriggerAfterQuit
    \/ \E t \in Tasks : LoopTop(t)
    \/ \E t \in Tasks : SelCtxDone(t)
    \/ \E t \in Tasks : SelRestart(t)
    \/ \E t \in Tasks : SelDone(t)
    \/ \E t \in Tasks : DrainDone(t)
    \/ \E t \in Tasks : CoolCtxDone(t)
    \/ \E t \in Tasks : CoolRestart(t)
    \/ StartReturn
    \/ CloseEvents
    \/ UiRecv
    \/ UiQuit
    \/ UiExit

UiWatchSpec == UiWatchInit /\ [][UiWatchNext]_vars

\* What the Go runtime, the kernel and the goroutines of the program do without
\* outside help.  The child's own exit, the exit of its descendants, a scan
\* error and a signal to the supervisor are the environment's: no fairness.
Fairness ==
    /\ \A e \in Tasks \X {1} :
          /\ WF_vars(StartCmd(e))
          /\ WF_vars(CtxKill(e))
          /\ WF_vars(StreamsDone(e))
          /\ WF_vars(WaitReturn(e))
          /\ \A s \in Streams : WF_vars(ScanEOF(e, s))
    /\ \A t \in Tasks : WF_vars(GoOk(t)) /\ WF_vars(GoSend(t)) /\ WF_vars(GoCancel(t))
    /\ WF_vars(RunReturn)
    /\ WF_vars(MainExit)

FairSpec == Spec /\ Fairness

\* The same for interactive plain mode: the goroutines of the executors, of
\* Run, of main's closing goroutine and of the dashboard's feeder take the
\* steps they can take.  What a child does and the user's keys are the
\* environment's; main's return after a quit is included.
UiFairness ==
    /\ \A e \in Tasks \X {1} :
          /\ WF_vars(StartCmd(e))
          /\ WF_vars(CtxKill(e))
          /\ WF_vars(StreamsDone(e))
          /\ WF_vars(WaitReturn(e))
          /\ \A s \in Streams :
                WF_vars(ScanLine(e, s)) /\ WF_vars(ScanTooLong(e, s)) /\ WF_vars(ScanEOF(e, s))
    /\ \A t \in Tasks : WF_vars(GoOk(t)) /\ WF_vars(GoSend(t)) /\ WF_vars(GoCancel(t))
    /\ WF_vars(RunReturn)
    /\ WF_vars(CloseEvents)
    /\ WF_vars(UiRecv)
    /\ WF_vars(UiExit)

UiFairSpec == UiSpec /\ UiFairness

\* The same for watch mode: the goroutines of the executors, the per-task
\* loops, Watcher.Start and main take the steps they can take.  Filesystem
\* events, the expiry of the debounce timer and signals are the environment's.
WatchFairness ==
    /\ \A t \in Tasks :
          /\ WF_vars(\E e \in DOMAIN ex : e[1] = t /\ StartCmd(e))
          /\ WF_vars(\E e \in DOMAIN ex : e[1] = t /\ CtxKill(e))
          /\ WF_vars(\E e \in DOMAIN ex : e[1] = t /\ StreamsDone(e))
          /\ WF_vars(\E e \in DOMAIN ex : e[1] = t /\ WaitReturn(e))
          /\ WF_vars(\E e \in DOMAIN ex, s \in Streams : e[1] = t /\ ScanEOF(e, s))
          /\ WF_vars(StartLaunch(t)) /\ WF_vars(LoopTop(t))
          /\ WF_vars(SelCtxDone(t) \/ SelRestart(t) \/ SelDone(t))
          /\ WF_vars(DrainDone(t))
          /\ WF_vars(CoolCtxDone(t) \/ CoolRestart(t))
    /\ WF_vars(WatchLoopExit)
    /\ WF_vars(StartReturn)
    /\ WF_vars(MainExit)

FairWatchSpec == WatchSpec /\ WatchFairness

----------------------------------------------------------------------------
(* Runner.Run and runTask: the claims *)

\* C1: once the goroutine of a task whose runTask returned a failure has
\* finished, Run's scope is cancelled, and ctx.Err() != nil for every executor.
C1_FailureCancelsScope ==
    \A t \in Tasks :
        (gpc[t] = "done" /\ ex[<<t, 1>>].res = "err")
            => (runCancelled /\ \A e \in DOMAIN ex : CtxErr(e))

\* A task has failed and been reported while the child of another task is
\* still running, with no signal received.
C1_Witness ==
    \E t, u \in Tasks :
        /\ gpc[t] = "done" /\ ex[<<t, 1>>].res = "err"
        /\ ex[<<u, 1>>].child = "run"
        /\ ~rootCancelled /\ runPc = "running"

C3_RunReturnsAfterAll ==
    runPc = "returned" =>
        /\ \A t \in Tasks : gpc[t] = "done" /\ ex[<<t, 1>>].pc = "ret"
        /\ firstErr = 0 => \A t \in Tasks : ex[<<t, 1>>].res = "nil"

\* Run returned nil after every child had been started and reaped.
C3_Witness ==
    /\ runPc = "returned"
    /\ firstErr = 0
    /\ \A t \in Tasks : ex[<<t, 1>>].child = "reaped"

\* C4: in the step in which runTask returns after a child that exited with a
\* non-zero code, it returns a failure if and only if ctx.Err() is nil.
C4_NonZeroExitFailsIffNotCancelled ==
    [][\A e \in DOMAIN ex :
          (ex[e].pc = "wait" /\ ex'[e].pc = "ret" /\ ex[e].status = "1")
              => (ex'[e].res = "err" <=> ~CtxErr(e))]_vars

\* One child exited non-zero and its executor returned a failure; another
\* child exited non-zero on its own under the cancelled scope and its
\* executor returned nil.
C4_Witness ==
    \E e, f \in DOMAIN ex :
        /\ ex[e].pc = "ret" /\ ex[e].status = "1" /\ ex[e].res = "err"
        /\ ex[f].pc = "ret" /\ ex[f].status = "1" /\ ex[f].res = "nil"

\* C5: every forceful kill sent to a child comes after an interrupt sent to
\* it (the claim also wants the grace period to have elapsed in between; the
\* executor arms no timer at all).
C5_NoKillBeforeInterrupt ==
    \A e \in DOMAIN ex :
        \A i \in 1..Len(ex[e].sigs) :
            ex[e].sigs[i] = "KILL" => \E j \in 1..(i - 1) : ex[e].sigs[j] = "INT"

\* C6: after fail-fast cancellation (a failure reported and the scope
\* cancelled) Run eventually returns, which it does only after every
\* executor has returned.
C6_FailFastTerminates ==
    (errChan # <<>> /\ runCancelled) ~> (runPc = "returned")

\* C7: runTask has returned for a spawned child only if both of its splitters
\* finished at end-of-stream and the child has been reaped.
C7_ReturnsAfterEOFAndReap ==
    \A e \in DOMAIN ex :
        (ex[e].pc = "ret" /\ ex[e].child # "none")
            => /\ \A s \in Streams : ex[e].split[s] = "eof"
               /\ ex[e].child = "reaped"

\* The executors of task t whose runTask has not returned.
ActiveExecs(t) == {e \in DOMAIN ex : e[1] = t /\ ex[e].pc # "ret"}

\* C8: every write of a labelled line is made under one and the same mutex, in
\* plain and in watch mode alike, so no two lines are ever being written at
\* the same time.
C8_WritesSerialised == Cardinality(Writing) <= 1

\* C9: in watch mode at most one executor of a task is active at any instant:
\* the per-task loop launches no execution while the previous one of the same
\* task has not returned.
C9_OneActiveExecutor == \A t \in Tasks : Cardinality(ActiveExecs(t)) <= 1

\* A restart happened: the first execution was cancelled and drained, and the
\* second is running.
C9_Witness ==
    \E t \in Tasks :
        /\ runs[t] = 2 /\ lpc[t] = "select"
        /\ ex[Cur(t)].pc = "stream" /\ ex[Cur(t)].child = "run"

\* The per-task loop of the watched task t is at rest: nothing is pending that
\* would launch it again.
Settled(t) ==
    /\ ShouldWatch(t)
    /\ ~rootCancelled
    /\ lpc[t] \in {"select", "cool"}
    /\ mailbox[t] = 0
    /\ timer = "off"

\* C10: a watched task that received exactly M debounce windows after its
\* launch has been executed exactly M + 1 times, whatever the interleaving.
C10_OneRunPerWindow == \A t \in Tasks : Settled(t) => runs[t] = windows[t] + 1

\* C10, amended: a watched task is executed once at launch and once more for
\* every window whose pulse found its mailbox empty, hence at most M + 1 times
\* after M windows; a window that closes while a pulse is pending adds none.
C10_OneRunPerAcceptedPulse ==
    \A t \in Tasks :
        ShouldWatch(t) =>
            /\ accepted[t] <= windows[t]
            /\ runs[t] <= accepted[t] + 1
            /\ Settled(t) => runs[t] = accepted[t] + 1

\* Two windows closed during one execution: the second pulse was dropped and
\* the task has been executed twice.
C10_Witness ==
    \E t \in Tasks :
        Settled(t) /\ windows[t] = 2 /\ accepted[t] = 1 /\ runs[t] = 2

\* C11: when a pulse made the per-task loop cancel the running execution, the
\* pulses that arrive while the loop waits for it to return are absorbed by
\* that same restart: none is left pending when the loop goes round to start
\* the one new execution, so none causes a further restart.
C11_DrainAbsorbsPulses ==
    [][\A t \in Tasks : (lpc[t] = "drain" /\ lpc'[t] = "top") => mailbox'[t] = 0]_vars

\* C12: significant events that follow one another within the debounce window
\* give one round of pulses: an event that finds the timer pending stops it
\* and arms a new one without a round being run, and a round (one call of
\* triggerRestarts, the only place a pulse is sent) runs once per window, as
\* the window closes.
C12_OneRoundPerWindow ==
    [][/\ (timer = "armed" /\ timer' = "rearmed") => fired' = fired /\ mailbox' = mailbox
       /\ (fired' # fired \/ \E t \in Tasks : mailbox'[t] > mailbox[t]) =>
             (timer # "off" /\ timer' = "off" /\ fired' = fired + 1)]_vars

\* One window has closed and its round has run; in the next window events
\* have followed one another and no further round has run.
C12_Witness ==
    /\ timer = "rearmed" /\ fired = 1
    /\ \E t \in Tasks : accepted[t] = 1

\* C13: in watch mode a task that is not watched is executed exactly once:
\* its loop never waits for a pulse or for a cancelled execution, it has
\* launched its one execution once it is past the top of the loop, and when
\* that execution has returned the loop has returned and launches no more.
C13_UnwatchedRunsOnce ==
    \A t \in Tasks :
        ~ShouldWatch(t) =>
            /\ runs[t] <= 1
            /\ lpc[t] \notin {"drain", "cool"}
            /\ lpc[t] \in {"select", "exit"} => runs[t] = 1
            /\ (lpc[t] = "exit" /\ ~rootCancelled) => ActiveExecs(t) = {}

\* A task that is not watched has run once and its loop has returned, while
\* windows have closed and a watched task has been restarted.
C13_Witness ==
    \E t, u \in Tasks :
        /\ ~ShouldWatch(t) /\ lpc[t] = "exit" /\ runs[t] = 1 /\ ~rootCancelled
        /\ ShouldWatch(u) /\ runs[u] = 2 /\ windows[t] = 2

\* The watched set as the claim defines it: every selected task under the
\* global watch flag, otherwise the tasks whose own watch flag is true.
InWatchedSet(t) == IF globalWatch THEN TRUE ELSE watch[t]

\* C14: a round of pulses puts a pulse into the mailbox of a task (one whose
\* mailbox exists) if and only if the task is in the watched set; no other
\* step puts a pulse anywhere.
C14_PulseIffWatched ==
    [][/\ fired' = fired + 1 =>
             \A t \in Tasks : lpc[t] # "init" => (mailbox'[t] = 1 <=> InWatchedSet(t))
       /\ \A t \in Tasks : mailbox'[t] > mailbox[t] => (fired' = fired + 1 /\ InWatchedSet(t))]_vars

\* A round has run with one task watched by its own flag and one not: the
\* first has a pulse, the second none.
C14_Witness ==
    \E t, u \in Tasks :
        /\ ~globalWatch /\ watch[t] /\ ~watch[u]
        /\ windows[t] = 1 /\ windows[u] = 1
        /\ mailbox[t] = 1 /\ mailbox[u] = 0

----------------------------------------------------------------------------
(* main: the claims *)

\* C16: on the first termination signal received while tasks run, the root
\* scope is cancelled and the process exits only once the supervisor has
\* returned, with code 130.
C16_SignalWaitsThenExits130 ==
    (rootCancelled /\ ~Alive) => (exitCode = "130" /\ SupervisorReturned)

\* A signal arrived while a child was running: the child was killed, Run
\* returned and the process exited with 130.
C16_Witness ==
    /\ exitCode = "130" /\ runPc = "returned" /\ errChan = <<>>
    /\ \E e \in DOMAIN ex : ex[e].sigs = <<"KILL">> /\ ex[e].pc = "ret"

\* C17: a second termination signal that arrives while the process still
\* waits for the supervisor terminates the process at once: the process is
\* never found waiting with a second signal delivered.
C17_SecondSignalForcesExit == (sigChan = 1 /\ ~SupervisorReturned) => ~Alive

\* C18: if the child of a selected task exits with a non-zero code while no
\* termination signal has been received, the process exits with code 1 (unless
\* a signal arrives first), under Runner.Run and under Watcher.Start alike.
C18_FailureExitsOne ==
    (\E e \in DOMAIN ex : ex[e].status = "1" /\ ~rootCancelled)
        ~> (exitCode = "1" \/ rootCancelled)

\* C19: when positional task names are given, a child process is spawned for
\* exactly the named tasks: the executors launched are those of the names, and
\* no task that was not named has an executor, let alone a child.
C19_SpawnsExactlyNamed ==
    (args # <<>> /\ bootPc = "run") =>
        /\ Range(tasksToRun) = Range(args)
        /\ \A e \in DOMAIN ex : e[1] \in Range(args)
        /\ ex # <<>> => {e[1] : e \in DOMAIN ex} = Range(args)

\* One name of a manifest that lists several tasks was given, and the child
\* of that task has been spawned.
C19_Witness ==
    /\ Len(args) = 1 /\ Len(cfgTasks) > 1 /\ bootPc = "run"
    /\ \E e \in DOMAIN ex : ex[e].child = "run" /\ e[1] = args[1]

\* C20: when no file exists at the manifest path, the process reports it on
\* standard error and exits with code 2, without loading a configuration and
\* without launching anything.
C20_MissingManifestExitsTwo ==
    cfgFile = "missing" =>
        /\ bootPc \in {"stat", "exited"}
        /\ bootPc = "exited" => (exitCode = "2" /\ stderrMsg = "no config found")
        /\ tasksToRun = <<>> /\ ex = <<>>

\* The manifest is missing and the process has exited.
C20_Witness == cfgFile = "missing" /\ bootPc = "exited" /\ exitCode = "2"

\* The directories the claim wants registered: the watch root, and every
\* directory that is not excluded and lies below the root through directories
\* that are not excluded.
RECURSIVE Wanted(_)
Wanted(d) == IF d = 1 THEN TRUE ELSE ~Excluded(dirName[d]) /\ Wanted(dirParent[d])

\* C15: once the directories of a watched task have been registered
\* successfully, the registered set is exactly the task's watch root together
\* with the directories reachable from it through directories that are not
\* excluded.
C15_RegistersRootAndSubtree ==
    regPc = "done" => registered = {d \in Dirs : Wanted(d)}
----------------------------------------------------------------------------
(* Lines: the claims *)

\* The labelled lines of stream s of task t on the sink, in order.
SinkOf(t, s) == SelectSeq(sink, LAMBDA x : x[1] = t /\ x[2][1] = s)

\* The lines a child has written on stream s, labelled for task t, in order.
LabelledLines(t, s, w) == [i \in 1..Len(w) |-> Labelled(t, Text(s, w[i]))]

\* C21: when the executor of a task has returned and the child had written N
\* newline-terminated lines on a stream and exited with status 0, exactly N
\* labelled lines of that stream are on the sink, the i-th being the i-th line
\* written.
C21_EveryLineEmitted ==
    \A e \in DOMAIN ex, s \in Streams :
        (ex[e].pc = "ret" /\ ex[e].status = "0")
            => SinkOf(e[1], s) = LabelledLines(e[1], s, ex[e].wrote[s])

\* C27: a line longer than the scanner's limit does not end the splitter
\* before end-of-stream and loses no line: when the executor of a child has
\* returned, both splitters have finished at end-of-stream and every line the
\* child wrote, the over-long ones included, has been emitted.
C27_LongLineNotDropped ==
    \A e \in DOMAIN ex, s \in Streams :
        /\ ex[e].split[s] # "err"
        /\ (ex[e].pc = "ret" /\ ex[e].child # "none") =>
              \A i \in 1..Len(ex[e].wrote[s]) :
                  \E j \in 1..Len(sink) : sink[j] = Labelled(e[1], Text(s, ex[e].wrote[s][i]))

\* C30: the labelled lines of one stream of one child are on the sink in the
\* order in which the child wrote them, none of them twice.
C30_StreamOrderKept ==
    \A e \in DOMAIN ex, s \in Streams :
        LET q == SinkOf(e[1], s)
        IN  /\ \A j, k \in 1..Len(q) : j < k => q[j][2][2] < q[k][2][2]
            /\ \A j \in 1..Len(q) :
                  q[j][2][2] \in 1..Len(ex[e].wrote[s])

\* Two lines of each stream of a child have been emitted, a line of the other
\* stream in between.
C30_Witness ==
    /\ Len(sink) = 4
    /\ sink[1][2][1] # sink[2][2][1]
    /\ \A s \in Streams : Len(SinkOf(1, s)) = 2
----------------------------------------------------------------------------
(* Interactive mode: the claims *)

\* C22: when the user has quit the dashboard and the process has exited, no
\* child is left running or unreaped: every child that was spawned has been
\* terminated and reaped before the exit.
C22_QuitReapsChildren ==
    (uiPc = "returning" /\ ~Alive) =>
        \A e \in DOMAIN ex : ex[e].child \in {"none", "reaped"}

\* C23: once the executor of a task has returned, the task's status on the
\* dashboard eventually becomes done or failed (unless the user quits the
\* dashboard first).
C23_StatusBecomesFinal ==
    \A t \in Tasks :
        (ex[<<t, 1>>].pc = "ret") ~> (statuses[t] \in {"done", "failed"} \/ uiPc # "tui")
----------------------------------------------------------------------------
(* Watcher: further claims *)

\* C24: a per-task loop that returns after the root scope was cancelled has
\* waited for its running executor to return, so that once Watcher.Start has
\* returned every executor has returned.
C24_StartReturnsAfterExecutors ==
    /\ \A t \in Tasks : (lpc[t] = "exit" /\ rootCancelled) => ActiveExecs(t) = {}
    /\ startPc = "returned" => \A e \in DOMAIN ex : ex[e].pc = "ret"

\* C25: a per-task loop in cooldown (its execution has returned, no pulse was
\* pending) launches nothing while it stays there; it leaves cooldown for a
\* new execution only by taking one pulse out of the mailbox, and otherwise
\* only when the root scope is cancelled; and every launch is one execution,
\* made at the top of the loop.
C25_CooldownPulseStartsOne ==
    [][\A t \in Tasks :
          /\ lpc[t] = "cool" => runs'[t] = runs[t] /\ ActiveExecs(t) = {}
          /\ (lpc[t] = "cool" /\ lpc'[t] # "cool") =>
                \/ lpc'[t] = "top" /\ mailbox[t] = 1 /\ mailbox'[t] = 0
                \/ lpc'[t] = "exit" /\ rootCancelled
          /\ runs'[t] # runs[t] =>
                (lpc[t] = "top" /\ lpc'[t] = "select" /\ runs'[t] = runs[t] + 1)]_vars

\* A watched task ran and returned, one pulse started it once more, and it is
\* in cooldown again with nothing pending.
C25_Witness ==
    \E t \in Tasks :
        /\ lpc[t] = "cool" /\ runs[t] = 2 /\ accepted[t] = 1 /\ windows[t] = 1
        /\ mailbox[t] = 0 /\ timer = "off" /\ ~rootCancelled

\* C26: a mailbox never holds more than one pulse, and a round that finds a
\* pulse pending in a task's mailbox completes (triggerRestarts does not
\* block) and leaves that mailbox as it was.
C26_MailboxHoldsOne ==
    [][/\ \A t \in Tasks : mailbox[t] <= MailboxCap /\ mailbox'[t] <= MailboxCap
       /\ fired' = fired + 1 =>
             \A t \in Tasks : mailbox[t] = MailboxCap => mailbox'[t] = mailbox[t]]_vars

\* A round has run while a pulse was pending for a watched task: two windows
\* have closed, one pulse was accepted and it is still in the mailbox.
C26_Witness ==
    \E t \in Tasks :
        /\ ShouldWatch(t) /\ windows[t] = 2 /\ accepted[t] = 1 /\ mailbox[t] = 1
        /\ runs[t] = 1

\* C28: Watcher.Start gives up with an error before launching tasks only when
\* the watch root itself cannot be registered; a failure to register a
\* directory below the root does not abort startup.
C28_OnlyRootFailureAborts == StartAborted => RootFailed

\* C29: the event channel is closed only after every producer has stopped: no
\* executor, splitter, watch-layer message or pending debounce timer sends
\* on the event channel after it has been closed (such a send panics).
C29_NoSendAfterClose == ~panicked

C32_OnlyCreateOrWriteCount ==
    [][ /\ (timer' # "off" /\ timer' # timer) => Significant(lastOp')
        /\ (lastOp' # lastOp /\ lastOp' \cap {"create", "write"} = {})
               => UNCHANGED <<timer, mailbox, accepted, fired>>
        /\ (\E t \in Tasks : mailbox'[t] > mailbox[t]) => timer # "off"
      ]_vars

\* A remove-and-rename event has arrived while the debounce window of a write
\* was open: the timer is still the one the write armed.
C32_Witness ==
    /\ lastOp = {"remove", "rename"}
    /\ timer = "armed"
    /\ \E t \in Tasks :
          ShouldWatch(t) /\ Cur(t) \in DOMAIN ex /\ ex[Cur(t)].child = "run"

\* C33: whenever config.Load returns a configuration without error, every
\* name in its task list has a definition in the task mapping and every
\* definition in the mapping has a non-empty command.
C33_LoadedConfigValid ==
    loaded.err = "nil" =>
        /\ \A i \in DOMAIN loaded.cfg.Tasks : loaded.cfg.Tasks[i] \in DOMAIN loaded.cfg.TaskDefs
        /\ \A n \in DOMAIN loaded.cfg.TaskDefs : loaded.cfg.TaskDefs[n].Cmd # ""

\* Load has accepted a manifest that lists two tasks and defines a third.
C33_Witness ==
    /\ loaded.err = "nil"
    /\ Len(loaded.cfg.Tasks) = 2
    /\ Cardinality(DOMAIN loaded.cfg.TaskDefs) = 3

\* C34: after any sequence of log events the dashboard's ring holds at most
\* 500 entries, and they are the most recently received events in arrival
\* order: with n events received, the entries are those of the events
\* n - Len(logs) + 1 .. n, Len(logs) being the smaller of n and 500.
C34_RingKeepsNewest ==
    LET n == Sent - Len(eventChan)
    IN  /\ Len(logs) <= LogCap
        /\ Len(logs) = IF n < LogCap THEN n ELSE LogCap
        /\ \A i \in 1..Len(logs) :
               logs[i] = Labelled(1, <<"stdout", n - Len(logs) + i>>)

\* The ring is full and two entries have been dropped from it.
C34_Witness == Len(logs) = LogCap /\ logs[1] = Labelled(1, <<"stdout", 3>>)

\* An executor has returned the failure of its child: cmd.Wait returned an
\* error and ctx.Err() was nil, so no signal had been received and Run had
\* not cancelled its scope.
FailedBeforeCancel == \E e \in DOMAIN ex : ex[e].child = "reaped" /\ ex[e].res = "err"

\* C35: if the executor of a task returns a failure before any termination
\* signal is received, the process exits with code 1 and not 130, even when a
\* signal arrives while Runner.Run is still waiting for the other executors.
C35_FailureExitsOneNot130 == (~Alive /\ FailedBeforeCancel) => exitCode = "1"

\* C35, amended: after such a failure the process exits with code 1 when main
\* receives Run's result before any signal, and with 130 when a signal
\* arrives before that, Run's error being dropped.
C35_FailureExitsOneUnlessSignalled ==
    (~Alive /\ FailedBeforeCancel) => exitCode = IF rootCancelled THEN "130" ELSE "1"

\* The child of one task exited with 1, Run cancelled its scope and killed the
\* child of another task; the signal arrived before Run returned, and the
\* process has exited with 130.
C35_Witness ==
    /\ exitCode = "130"
    /\ firstErr # 0
    /\ \E e \in DOMAIN ex : ex[e].status = "1" /\ ex[e].res = "err"
    /\ \E e \in DOMAIN ex : ex[e].sigs = <<"KILL">> /\ ex[e].pc = "ret"

\* C36: every error collected by Runner.Run comes from a task that failed on
\* its own before its scope was cancelled: runTask returns an error (which
\* its goroutine then puts on errChan) only while the scope is not cancelled,
\* also for a task whose child had not been started when the scope was
\* cancelled.
C36_NoErrorFromCancelledTask ==
    [][\A e \in DOMAIN ex \cap DOMAIN ex' :
           (ex[e].res = "-" /\ ex'[e].res = "err") => ~CtxErr(e)]_vars

\* C37: the map of restart mailboxes is never read, by triggerRestarts or by
\* a per-task loop, while Watcher.Start is writing to it.
C37_NoMapReadDuringWrite == ~mapRace

\* C38: for every list of task names accepted by GetTasksToRun, no task name
\* is run by two executors at the same time, also when a name is repeated in
\* the list.
C38_OneExecutorPerName ==
    \A e, f \in DOMAIN ex :
        (e[1] = f[1] /\ ex[e].child = "run" /\ ex[f].child = "run") => e = f

C40_StartWaitsForCancel ==
    (startPc = "returned" /\ \E t \in Tasks : ShouldWatch(t)) => rootCancelled

\* Every executor has returned and been received, one of them after a
\* restart; the loop of every watched task waits for a pulse, the loop of
\* every other task has returned, the root scope is not cancelled and Start
\* is still in wg.Wait().
C40_Witness ==
    /\ ~rootCancelled
    /\ startPc = "running"
    /\ DOMAIN ex = {}
    /\ \E t \in Tasks : ShouldWatch(t) /\ runs[t] = 2
    /\ \A t \in Tasks : lpc[t] = IF ShouldWatch(t) THEN "cool" ELSE "exit"
====
